---- MODULE Spec2Model ----
(***************************************************************************)
(* Model of raft's top-k selection engine                                  *)
(* (cpp/include/raft/matrix/detail/select_k-inl.cuh): the algorithm        *)
(* chooser, the segmented sort-by-key helper, and the dense and sparse     *)
(* (CSR) select_k entry points, alone and two calls at a time; and of the  *)
(* workspace sizing and the distance entry points of                       *)
(* cpp/include/raft/distance/distance.cuh; of the spectral partitioner     *)
(* (cpp/include/raft/spectral/partition.hpp); and of the wheel validation  *)
(* script ci/validate_wheel.sh.                                            *)
(*                                                                         *)
(* Buffers are 1-indexed sequences holding row-major data (slot p of the   *)
(* model is element p-1 of the C++ buffer).  Keys are the unsigned bit     *)
(* patterns the radix sort compares.  Element types are represented by     *)
(* their sizeof in bytes; the model uses 1- and 2-byte types as scaled     *)
(* stand-ins for the 4- and 8-byte types of the library, so that every     *)
(* key value stays a small integer.                                        *)
(***************************************************************************)
EXTENDS Integers, Sequences, FiniteSets, TLC

VARIABLES pc, call, out_val, out_idx, ops, err, algo, chooser_calls, worksize, dev, ret

vars ==
  <<pc, call, out_val, out_idx, ops, err, algo, chooser_calls, worksize, dev, ret>>

(***************************************************************************)
(* Bounds of the model.                                                    *)
(***************************************************************************)
MaxBatch == 2
MaxLen == 3
MaxCells == 4
MaxRows == 2
MaxRowNnz == 2
MaxNnz == 3
MaxK == 2
MaxSortLen == 3
MaxSegments == 2
MaxPoints == 2
MaxConcLen == 2
MaxOffsetRows == 16
MaxOffsetK == 16
MaxIters == 2
MaxStatus == 2

(***************************************************************************)
(* Generic helpers.                                                        *)
(***************************************************************************)
NULL == "null"

Range(s) == {s[i] : i \in DOMAIN s}

Pow2(n) == 2 ^ n

Min(a, b) == IF a <= b THEN a ELSE b

InjSeqs(S, n) == {s \in [1..n -> S] : \A i, j \in 1..n : i # j => s[i] # s[j]}

\* number of slots of the pair sequences vs and is that hold the pair <<v, i>>
CountPair(vs, is, S, v, i) == Cardinality({p \in S : vs[p] = v /\ is[p] = i})

\* number of slots in S of vs that hold v
CountVal(vs, S, v) == Cardinality({p \in S : vs[p] = v})

(***************************************************************************)
(* SelectAlgo (raft/matrix/select_k_types.hpp), plus one value outside the *)
(* enumeration, which a caller can produce with a cast.                    *)
(***************************************************************************)
kRadix8bits == "kRadix8bits"
kRadix11bits == "kRadix11bits"
kRadix11bitsExtraPass == "kRadix11bitsExtraPass"
kWarpDistributed == "kWarpDistributed"
kWarpDistributedShm == "kWarpDistributedShm"
kWarpAuto == "kWarpAuto"
kWarpImmediate == "kWarpImmediate"
kWarpFiltered == "kWarpFiltered"
kAuto == "kAuto"
kOutOfEnum == "kOutOfEnum"

RadixAlgos == {kRadix8bits, kRadix11bits, kRadix11bitsExtraPass}
WarpAlgos == {kWarpDistributed, kWarpDistributedShm, kWarpAuto, kWarpImmediate, kWarpFiltered}
SelectAlgo == RadixAlgos \cup WarpAlgos \cup {kAuto}
AlgoValues == SelectAlgo \cup {kOutOfEnum}

(***************************************************************************)
(* choose_select_k_algorithm: the generated decision tree.                 *)
(***************************************************************************)
\* variant: a leaf of the tree for wide selections is left at Auto
choose_select_k_algorithm_auto_leaf(rows, cols, k) ==
  IF k > 256
    THEN IF cols > 16862
           THEN IF rows > 1020 THEN kRadix11bitsExtraPass ELSE kRadix11bits
           ELSE kAuto
    ELSE IF k > 2
           THEN IF cols > 22061
                  THEN kWarpDistributedShm
                  ELSE IF rows > 198 THEN kWarpDistributedShm ELSE kWarpImmediate
           ELSE kWarpImmediate

\* variant: the column threshold of the wide selections is inclusive
choose_select_k_algorithm_inclusive(rows, cols, k) ==
  IF k > 256
    THEN IF cols >= 16862
           THEN IF rows > 1020 THEN kRadix11bitsExtraPass ELSE kRadix11bits
           ELSE kRadix11bitsExtraPass
    ELSE IF k > 2
           THEN IF cols > 22061
                  THEN kWarpDistributedShm
                  ELSE IF rows > 198 THEN kWarpDistributedShm ELSE kWarpImmediate
           ELSE kWarpImmediate

choose_select_k_algorithm(rows, cols, k) ==
  IF k > 256
    THEN IF cols > 16862
           THEN IF rows > 1020 THEN kRadix11bitsExtraPass ELSE kRadix11bits
           ELSE kRadix11bitsExtraPass
    ELSE IF k > 2
           THEN IF cols > 22061
                  THEN kWarpDistributedShm
                  ELSE IF rows > 198 THEN kWarpDistributedShm ELSE kWarpImmediate
           ELSE kWarpImmediate

(***************************************************************************)
(* Element types.  T (KeyT) and IdxT (ValT) are given by sizeof in bytes.  *)
(***************************************************************************)
TypeSizes == {1, 2}

SizeofBits(t) == t * 8

\* conversion of a host integer to the unsigned type of t bytes
Cast(x, t) == x % Pow2(SizeofBits(t))

\* key bit patterns the callers supply: for the wider type the two values
\* differ in the upper byte and are ordered the other way round in the lower
KeyValues(T) == IF T = 1 THEN {1, 2} ELSE {1, 256}

(***************************************************************************)
(* cub::DeviceSegmentedRadixSort::SortPairs / SortPairsDescending.         *)
(* A stable sort of every segment [offsets[i], offsets[i+1]) that compares *)
(* only the key bits [begin_bit, end_bit).                                 *)
(***************************************************************************)
Uninit == -1

KeyBits(key, begin_bit, end_bit) == (key \div Pow2(begin_bit)) % Pow2(end_bit - begin_bit)

\* pair x is ordered strictly before pair y
PairBefore(x, y, asc, begin_bit, end_bit) ==
  IF asc THEN KeyBits(x[1], begin_bit, end_bit) < KeyBits(y[1], begin_bit, end_bit)
         ELSE KeyBits(x[1], begin_bit, end_bit) > KeyBits(y[1], begin_bit, end_bit)

InsertStable(s, x, asc, begin_bit, end_bit) ==
  LET n == Cardinality({i \in 1..Len(s) : ~PairBefore(x, s[i], asc, begin_bit, end_bit)})
  IN SubSeq(s, 1, n) \o <<x>> \o SubSeq(s, n + 1, Len(s))

RECURSIVE SortPairsSegment(_, _, _, _)
SortPairsSegment(pairs, asc, begin_bit, end_bit) ==
  IF pairs = <<>> THEN <<>>
  ELSE InsertStable(SortPairsSegment(SubSeq(pairs, 1, Len(pairs) - 1), asc, begin_bit, end_bit),
                    pairs[Len(pairs)], asc, begin_bit, end_bit)

\* segment (1-based number) holding slot p, 0 when no segment holds it
SegmentOf(p, offsets, n_segments) ==
  LET S == {i \in 1..n_segments : offsets[i] < p /\ p <= offsets[i + 1]}
  IN IF S = {} THEN 0 ELSE CHOOSE i \in S : TRUE

\* variant: the segment boundaries are ignored and all elements are sorted as one
SortPairs_unsegmented(keys, values, n_elements, n_segments, offsets, asc, begin_bit, end_bit) ==
  [p \in 1..n_elements |->
     SortPairsSegment([q \in 1..n_elements |-> <<keys[q], values[q]>>],
                      asc, begin_bit, end_bit)[p]]

\* the sorted pairs, slot by slot; slots outside every segment are not written
SortPairs(keys, values, n_elements, n_segments, offsets, asc, begin_bit, end_bit) ==
  [p \in 1..n_elements |->
     LET i == SegmentOf(p, offsets, n_segments)
     IN IF i = 0 THEN <<Uninit, Uninit>>
        ELSE LET lo == offsets[i]
                 hi == Min(offsets[i + 1], n_elements)
                 seg == [q \in 1..(hi - lo) |-> <<keys[lo + q], values[lo + q]>>]
             IN SortPairsSegment(seg, asc, begin_bit, end_bit)[p - lo]]

\* bytes of scratch the size query reports
TempStorageBytes(n_elements, n_segments) == n_elements + n_segments + 1

(***************************************************************************)
(* segmented_sort_by_key, pointer overload.  Returns the keys and values   *)
(* buffers after the call and the operations submitted, in order.          *)
(***************************************************************************)
BeginBit == 0

EndBit(KeyT, ValT) == SizeofBits(ValT)

\* variant: the size query is always made for the ascending sort
SortCall_ascending_query(query, bytes, n_elements, n_segments, offsets, asc, KeyT, ValT, stream) ==
  [op |-> IF asc \/ query THEN "SortPairs" ELSE "SortPairsDescending",
   d_temp_storage |-> IF query THEN NULL ELSE "d_temp_storage",
   temp_storage_bytes |-> bytes,
   n_elements |-> n_elements, n_segments |-> n_segments, offsets |-> offsets,
   begin_bit |-> BeginBit, end_bit |-> EndBit(KeyT, ValT), stream |-> stream]

SortCall(query, bytes, n_elements, n_segments, offsets, asc, KeyT, ValT, stream) ==
  [op |-> IF asc THEN "SortPairs" ELSE "SortPairsDescending",
   d_temp_storage |-> IF query THEN NULL ELSE "d_temp_storage",
   temp_storage_bytes |-> bytes,
   n_elements |-> n_elements, n_segments |-> n_segments, offsets |-> offsets,
   begin_bit |-> BeginBit, end_bit |-> EndBit(KeyT, ValT), stream |-> stream]

\* variant: the two copies back take each other's source buffer
CopyBack_swapped(sorted, n_elements) ==
  [keys |-> [p \in 1..n_elements |-> sorted[p][2]],
   values |-> [p \in 1..n_elements |-> sorted[p][1]]]

\* the two copies that move the sorted pairs back into the caller's buffers
CopyBack(sorted, n_elements) ==
  [keys |-> [p \in 1..n_elements |-> sorted[p][1]],
   values |-> [p \in 1..n_elements |-> sorted[p][2]]]

segmented_sort_by_key(handle, keys, values, n_segments, n_elements, offsets, asc, KeyT, ValT) ==
  LET stream == handle.stream
      bytes == TempStorageBytes(n_elements, n_segments)
      sorted == SortPairs(keys, values, n_elements, n_segments, offsets, asc,
                          BeginBit, EndBit(KeyT, ValT))
      back == CopyBack(sorted, n_elements)
  IN [keys |-> back.keys,
      values |-> back.values,
      ops |-> << [op |-> "alloc", buf |-> "out_inds", size |-> n_elements, stream |-> stream],
                 [op |-> "alloc", buf |-> "out_dists", size |-> n_elements, stream |-> stream],
                 [op |-> "alloc", buf |-> "d_temp_storage", size |-> 0, stream |-> stream],
                 SortCall(TRUE, 0, n_elements, n_segments, offsets, asc, KeyT, ValT, stream),
                 [op |-> "alloc", buf |-> "d_temp_storage", size |-> bytes, stream |-> stream],
                 SortCall(FALSE, bytes, n_elements, n_segments, offsets, asc, KeyT, ValT, stream),
                 [op |-> "copy", dst |-> "values", src |-> "out_inds", size |-> n_elements,
                  stream |-> stream],
                 [op |-> "copy", dst |-> "keys", src |-> "out_dists", size |-> n_elements,
                  stream |-> stream] >>,
      err |-> NULL]

\* variant: the sizes are checked after the output buffers were allocated
segmented_sort_by_key_view_late_check(handle, offsets, keys, values, asc, KeyT, ValT) ==
  IF Len(keys) # Len(values)
    THEN [keys |-> keys, values |-> values,
          ops |-> << [op |-> "alloc", buf |-> "out_inds", size |-> Len(keys),
                      stream |-> handle.stream] >>,
          err |-> "Keys and values must contain the same number of elements."]
    ELSE segmented_sort_by_key(handle, keys, values, Len(offsets) - 1, Len(keys),
                               offsets, asc, KeyT, ValT)

\* view overload: checks the sizes, then forwards
segmented_sort_by_key_view(handle, offsets, keys, values, asc, KeyT, ValT) ==
  IF Len(keys) # Len(values)
    THEN [keys |-> keys, values |-> values, ops |-> <<>>,
          err |-> "Keys and values must contain the same number of elements."]
    ELSE segmented_sort_by_key(handle, keys, values, Len(offsets) - 1, Len(keys),
                               offsets, asc, KeyT, ValT)

(***************************************************************************)
(* The selection backends (select_radix.cuh, select_warpsort.cuh).  Both   *)
(* select, for every row, k of the row's (value, index) pairs such that no *)
(* unselected value is strictly better than a selected one; the radix      *)
(* backend emits them in any order, the warp-sort backend in sorted order. *)
(* A selection of a row is the sequence of the k selected columns (1..len).*)
(***************************************************************************)
Better(a, b, select_min) == IF select_min THEN a < b ELSE a > b

RowSelections(in_val, base, len, k, select_min) ==
  {s \in InjSeqs(1..len, k) :
     \A j \in 1..k : \A q \in (1..len) \ Range(s) :
        ~Better(in_val[base + q], in_val[base + s[j]], select_min)}

SortedRowSelections(in_val, base, len, k, select_min) ==
  {s \in RowSelections(in_val, base, len, k, select_min) :
     \A i, j \in 1..k :
        i < j => ~Better(in_val[base + s[j]], in_val[base + s[i]], select_min)}

\* the output buffers for a choice sel of one selection per row
Gather(in_val, in_idx, batch_size, len, k, sel) ==
  [out_val |-> [p \in 1..(batch_size * k) |->
                  LET r == (p - 1) \div k
                      j == ((p - 1) % k) + 1
                  IN in_val[r * len + sel[r + 1][j]]],
   out_idx |-> [p \in 1..(batch_size * k) |->
                  LET r == (p - 1) \div k
                      j == ((p - 1) % k) + 1
                  IN in_idx[r * len + sel[r + 1][j]]]]

radix_select_k(in_val, in_idx, batch_size, len, k, select_min) ==
  {Gather(in_val, in_idx, batch_size, len, k, sel) :
     sel \in {f \in [1..batch_size -> InjSeqs(1..len, k)] :
                \A r \in 1..batch_size :
                   f[r] \in RowSelections(in_val, (r - 1) * len, len, k, select_min)}}

warpsort_select_k(in_val, in_idx, batch_size, len, k, select_min) ==
  {Gather(in_val, in_idx, batch_size, len, k, sel) :
     sel \in {f \in [1..batch_size -> InjSeqs(1..len, k)] :
                \A r \in 1..batch_size :
                   f[r] \in SortedRowSelections(in_val, (r - 1) * len, len, k, select_min)}}

(***************************************************************************)
(* select_k, dense entry point.                                            *)
(***************************************************************************)
\* variant: the chooser is consulted whatever the caller asked for
ResolveAlgo_always(a, batch_size, len, k) ==
  <<choose_select_k_algorithm(batch_size, len, k), 1>>

\* Auto is resolved by the chooser; the second component counts its calls
ResolveAlgo(a, batch_size, len, k) ==
  IF a = kAuto THEN <<choose_select_k_algorithm(batch_size, len, k), 1>>
               ELSE <<a, 0>>

\* variant: the switch sends every unlisted value to the automatic warp sort
Dispatch_default_warp(a) ==
  CASE a = kRadix8bits -> [backend |-> "radix", BitsPerPass |-> 8, fused_last_filter |-> TRUE]
    [] a = kRadix11bits -> [backend |-> "radix", BitsPerPass |-> 11, fused_last_filter |-> TRUE]
    [] a = kRadix11bitsExtraPass ->
         [backend |-> "radix", BitsPerPass |-> 11, fused_last_filter |-> FALSE]
    [] a = kWarpDistributed -> [backend |-> "warpsort", impl |-> "warp_sort_distributed"]
    [] a = kWarpDistributedShm -> [backend |-> "warpsort", impl |-> "warp_sort_distributed_ext"]
    [] a = kWarpImmediate -> [backend |-> "warpsort", impl |-> "warp_sort_immediate"]
    [] a = kWarpFiltered -> [backend |-> "warpsort", impl |-> "warp_sort_filtered"]
    [] OTHER -> [backend |-> "warpsort", impl |-> "select_k"]

\* variant: the extra-pass radix algorithm keeps the fused last filter
Dispatch_fused_extra_pass(a) ==
  CASE a = kRadix8bits -> [backend |-> "radix", BitsPerPass |-> 8, fused_last_filter |-> TRUE]
    [] a \in {kRadix11bits, kRadix11bitsExtraPass} ->
         [backend |-> "radix", BitsPerPass |-> 11, fused_last_filter |-> TRUE]
    [] a = kWarpDistributed -> [backend |-> "warpsort", impl |-> "warp_sort_distributed"]
    [] a = kWarpDistributedShm -> [backend |-> "warpsort", impl |-> "warp_sort_distributed_ext"]
    [] a = kWarpAuto -> [backend |-> "warpsort", impl |-> "select_k"]
    [] a = kWarpImmediate -> [backend |-> "warpsort", impl |-> "warp_sort_immediate"]
    [] a = kWarpFiltered -> [backend |-> "warpsort", impl |-> "warp_sort_filtered"]
    [] OTHER -> [backend |-> NULL]

\* the switch: which backend call a resolved algorithm reaches, NULL for the
\* default branch
Dispatch(a) ==
  CASE a = kRadix8bits -> [backend |-> "radix", BitsPerPass |-> 8, fused_last_filter |-> TRUE]
    [] a = kRadix11bits -> [backend |-> "radix", BitsPerPass |-> 11, fused_last_filter |-> TRUE]
    [] a = kRadix11bitsExtraPass ->
         [backend |-> "radix", BitsPerPass |-> 11, fused_last_filter |-> FALSE]
    [] a = kWarpDistributed -> [backend |-> "warpsort", impl |-> "warp_sort_distributed"]
    [] a = kWarpDistributedShm -> [backend |-> "warpsort", impl |-> "warp_sort_distributed_ext"]
    [] a = kWarpAuto -> [backend |-> "warpsort", impl |-> "select_k"]
    [] a = kWarpImmediate -> [backend |-> "warpsort", impl |-> "warp_sort_immediate"]
    [] a = kWarpFiltered -> [backend |-> "warpsort", impl |-> "warp_sort_filtered"]
    [] OTHER -> [backend |-> NULL]

\* variant: the post-sort follows every backend when sorted is set
PostSort_any_backend(a, sorted) == sorted

\* the post-sort runs in the radix case of the switch when sorted is set
PostSort(a, sorted) == a \in RadixAlgos /\ sorted

RECURSIVE ExclusiveScan(_, _)
ExclusiveScan(s, init) ==
  IF s = <<>> THEN <<>>
  ELSE LET head == ExclusiveScan(SubSeq(s, 1, Len(s) - 1), init)
       IN head \o << IF Len(s) = 1 THEN init ELSE head[Len(s) - 1] + s[Len(s) - 1] >>

\* the synthetic offsets of the post-sort: fill with k, then scan in place
SyntheticOffsets(batch_size, k, IdxT) ==
  LET n == Cast(batch_size + 1, IdxT)
      filled == [i \in 1..n |-> Cast(k, IdxT)]
      scanned == ExclusiveScan(filled, 0)
  IN [i \in 1..n |-> Cast(scanned[i], IdxT)]

\* a null memory resource stands for the current device resource
ResolveMr(mr) == IF mr = NULL THEN "current_device_resource" ELSE mr

\* the call a backend receives
BackendCall(d, c, stream) ==
  d @@ [op |-> "select", in_val |-> c.in_val, in_idx |-> c.in_idx,
        batch_size |-> c.batch_size, len |-> c.len, k |-> c.k,
        out_val |-> c.out_val, out_idx |-> c.out_idx,
        select_min |-> c.select_min, stream |-> stream, mr |-> ResolveMr(c.mr)]

\* RAFT_FAIL in the default branch: nothing was submitted
Fail(c, a, n) ==
  [out_val |-> c.out_val, out_idx |-> c.out_idx, ops |-> <<>>,
   err |-> "K-selection Algorithm not supported.", algo |-> a, chooser_calls |-> n]

\* the host side of a call: the resolved algorithm and the calls the host
\* makes, in order, with the device buffers left aside
select_k_host(c) ==
  LET res == ResolveAlgo(c.algo, c.batch_size, c.len, c.k)
      a == res[1]
      d == Dispatch(a)
      stream == c.handle.stream
  IN IF d.backend = NULL
       THEN Fail(c, a, res[2])
       ELSE [out_val |-> c.out_val, out_idx |-> c.out_idx,
             ops |-> << BackendCall(d, c, stream) >> \o
                     (IF PostSort(a, c.sorted)
                        THEN << [op |-> "alloc", buf |-> "offsets",
                                 size |-> Cast(c.batch_size + 1, c.IdxT)],
                                [op |-> "fill", buf |-> "offsets", value |-> Cast(c.k, c.IdxT)],
                                [op |-> "exclusive_scan", buf |-> "offsets", init |-> 0],
                                [op |-> "segmented_sort_by_key", asc |-> c.select_min] >>
                        ELSE <<>>),
             err |-> NULL, algo |-> a, chooser_calls |-> res[2]]

\* variant: the backends are given the positions in place of the caller's in_idx
select_k_positions(c) ==
  LET host == select_k_host(c)
      d == Dispatch(host.algo)
  IN IF host.err # NULL
       THEN {host}
       ELSE LET outs == IF d.backend = "radix"
                          THEN radix_select_k(c.in_val, [p \in 1..Len(c.in_val) |-> p],
                                              c.batch_size, c.len, c.k, c.select_min)
                          ELSE warpsort_select_k(c.in_val, [p \in 1..Len(c.in_val) |-> p],
                                                 c.batch_size, c.len, c.k, c.select_min)
            IN {IF PostSort(host.algo, c.sorted)
                  THEN LET offsets == SyntheticOffsets(c.batch_size, c.k, c.IdxT)
                           n == Cast(c.batch_size * c.k, c.IdxT)
                           keys == SubSeq(o.out_val, 1, n)
                           vals == SubSeq(o.out_idx, 1, n)
                           srt == segmented_sort_by_key_view(c.handle, offsets, keys, vals,
                                                             c.select_min, c.T, c.IdxT)
                       IN [host EXCEPT
                             !.out_val = srt.keys \o SubSeq(o.out_val, n + 1, Len(o.out_val)),
                             !.out_idx = srt.values \o SubSeq(o.out_idx, n + 1, Len(o.out_idx)),
                             !.ops = host.ops \o srt.ops,
                             !.err = srt.err]
                  ELSE [host EXCEPT !.out_val = o.out_val, !.out_idx = o.out_idx]
                : o \in outs}

\* what one call c can return: the output buffers, the operations submitted
\* and the error raised
select_k(c) ==
  LET host == select_k_host(c)
      d == Dispatch(host.algo)
  IN IF host.err # NULL
       THEN {host}
       ELSE LET outs == IF d.backend = "radix"
                          THEN radix_select_k(c.in_val, c.in_idx, c.batch_size, c.len,
                                              c.k, c.select_min)
                          ELSE warpsort_select_k(c.in_val, c.in_idx, c.batch_size, c.len,
                                                 c.k, c.select_min)
            IN {IF PostSort(host.algo, c.sorted)
                  THEN LET offsets == SyntheticOffsets(c.batch_size, c.k, c.IdxT)
                           n == Cast(c.batch_size * c.k, c.IdxT)
                           keys == SubSeq(o.out_val, 1, n)
                           vals == SubSeq(o.out_idx, 1, n)
                           srt == segmented_sort_by_key_view(c.handle, offsets, keys, vals,
                                                             c.select_min, c.T, c.IdxT)
                       IN [host EXCEPT
                             !.out_val = srt.keys \o SubSeq(o.out_val, n + 1, Len(o.out_val)),
                             !.out_idx = srt.values \o SubSeq(o.out_idx, n + 1, Len(o.out_idx)),
                             !.ops = host.ops \o srt.ops,
                             !.err = srt.err]
                  ELSE [host EXCEPT !.out_val = o.out_val, !.out_idx = o.out_idx]
                : o \in outs}

(***************************************************************************)
(* The callers.  A call is made from the idle state with arguments drawn   *)
(* from the bounded sets below; Return hands control back to the caller.   *)
(***************************************************************************)
Handle == [stream |-> "stream"]

MemoryResources == {NULL, "pool"}

\* what the caller's buffers hold before a call
PriorVal(n) == [p \in 1..n |-> 100 + p]
PriorIdx(n) == [p \in 1..n |-> 200 + p]
InIdx(n) == [p \in 1..n |-> 10 + p]

\* the device holds no work of the callers
NoDevice == [calls |-> <<>>, mem |-> <<>>, foreign |-> FALSE, crossread |-> FALSE]

Init ==
  /\ pc = "idle"
  /\ call = NULL
  /\ out_val = <<>>
  /\ out_idx = <<>>
  /\ ops = <<>>
  /\ err = NULL
  /\ algo = NULL
  /\ chooser_calls = 0
  /\ worksize = 0
  /\ dev = NoDevice
  /\ ret = NULL

Finish(c, r) ==
  /\ pc' = "done"
  /\ call' = c
  /\ out_val' = r.out_val
  /\ out_idx' = r.out_idx
  /\ ops' = r.ops
  /\ err' = r.err
  /\ algo' = r.algo
  /\ chooser_calls' = r.chooser_calls
  /\ UNCHANGED <<worksize, dev, ret>>

DenseSelectK ==
  /\ pc = "idle"
  /\ \E T \in TypeSizes, IdxT \in TypeSizes, batch_size \in 1..MaxBatch, len \in 1..MaxLen :
       /\ batch_size * len <= MaxCells
       /\ \E k \in 1..len, in_val \in [1..(batch_size * len) -> KeyValues(T)],
             select_min \in BOOLEAN, sorted \in BOOLEAN, a \in AlgoValues,
             mr \in MemoryResources :
            LET c == [entry |-> "dense", handle |-> Handle, T |-> T, IdxT |-> IdxT,
                      in_val |-> in_val, in_idx |-> InIdx(batch_size * len),
                      batch_size |-> batch_size, len |-> len, k |-> k,
                      out_val |-> PriorVal(batch_size * k),
                      out_idx |-> PriorIdx(batch_size * k),
                      select_min |-> select_min, mr |-> mr, sorted |-> sorted, algo |-> a]
            IN \E r \in select_k(c) : Finish(c, r)

Return ==
  /\ pc = "done"
  /\ pc' = "idle"
  /\ call' = NULL
  /\ out_val' = <<>>
  /\ out_idx' = <<>>
  /\ ops' = <<>>
  /\ err' = NULL
  /\ algo' = NULL
  /\ chooser_calls' = 0
  /\ worksize' = 0
  /\ dev' = NoDevice
  /\ ret' = NULL

\* a dense call with sizes around the thresholds of the chooser; the device
\* buffers of such sizes are not materialised and only the host side runs
RowsValues == {1, 198, 199, 1020, 1021}
ColsValues == {300, 16862, 16863, 22061, 22062}
KValues == {1, 2, 3, 256, 257}

DenseDispatch ==
  /\ pc = "idle"
  /\ \E batch_size \in RowsValues, len \in ColsValues, k \in KValues,
        select_min \in BOOLEAN, sorted \in BOOLEAN, a \in AlgoValues :
       LET c == [entry |-> "dispatch", handle |-> Handle, T |-> 2, IdxT |-> 2,
                 in_val |-> <<>>, in_idx |-> <<>>,
                 batch_size |-> batch_size, len |-> len, k |-> k,
                 out_val |-> <<>>, out_idx |-> <<>>,
                 select_min |-> select_min, mr |-> NULL, sorted |-> sorted, algo |-> a]
       IN Finish(c, select_k_host(c))

\* a direct call of the chooser
ChooseAlgorithm ==
  /\ pc = "idle"
  /\ \E rows \in RowsValues \cup {0}, cols \in ColsValues \cup {0},
        k \in KValues \cup {-1, 0, 1000} :
       /\ pc' = "done"
       /\ call' = [entry |-> "choose", rows |-> rows, cols |-> cols, k |-> k]
       /\ algo' = choose_select_k_algorithm(rows, cols, k)
       /\ chooser_calls' = 1
       /\ UNCHANGED <<out_val, out_idx, ops, err, worksize, dev, ret>>

\* the views the post-sort hands to the segmented sort: the synthetic offsets
\* and the extents given to the key and index views of the output buffers
post_sort_views(c) ==
  [offsets |-> SyntheticOffsets(c.batch_size, c.k, c.IdxT),
   keys_extent |-> Cast(c.batch_size * c.k, c.IdxT),
   vals_extent |-> Cast(c.batch_size * c.k, c.IdxT)]

\* the largest value of an index type
IdxMax(IdxT) == Pow2(SizeofBits(IdxT)) - 1

\* batch sizes and k of the post-sorted calls: small ones, ones whose product
\* leaves the range of the narrow index type, and the largest batch size of
\* the narrow index type
OffsetRows(IdxT) == (1..MaxOffsetRows) \cup (IF IdxT = 1 THEN {IdxMax(IdxT)} ELSE {})
OffsetK == (1..MaxOffsetK) \cup {IdxMax(1)}

\* a sorted dense call of a radix algorithm, host side, with the arguments of
\* its segmented sort call spelled out
DensePostSort ==
  /\ pc = "idle"
  /\ \E IdxT \in TypeSizes, k \in OffsetK, select_min \in BOOLEAN, a \in RadixAlgos :
     \E batch_size \in OffsetRows(IdxT) :
       LET c == [entry |-> "post_sort", handle |-> Handle, T |-> 2, IdxT |-> IdxT,
                 in_val |-> <<>>, in_idx |-> <<>>,
                 batch_size |-> batch_size, len |-> IdxMax(1), k |-> k,
                 out_val |-> <<>>, out_idx |-> <<>>,
                 select_min |-> select_min, mr |-> NULL, sorted |-> TRUE, algo |-> a]
           host == select_k_host(c)
       IN Finish(c, [host EXCEPT
                       !.ops = [n \in DOMAIN host.ops |->
                                  IF host.ops[n].op = "segmented_sort_by_key"
                                    THEN host.ops[n] @@ post_sort_views(c)
                                    ELSE host.ops[n]]])

NextPostSort == DensePostSort \/ Return

SpecPostSort == Init /\ [][NextPostSort]_vars

NextDense == DenseSelectK \/ Return

SpecDense == Init /\ [][NextDense]_vars

NextDispatch == DenseDispatch \/ Return

SpecDispatch == Init /\ [][NextDispatch]_vars

NextChooser == ChooseAlgorithm \/ Return

SpecChooser == Init /\ [][NextChooser]_vars

DenseDone == pc = "done" /\ call.entry = "dense"

\* slots of row r (0-based) in a row-major buffer of the given width
RowSlots(r, width) == (r * width + 1)..((r + 1) * width)

\* how many of the k selected elements of a row have the value v
TopKCount(in_val, S, v, k, select_min) ==
  LET better == Cardinality({q \in S : Better(in_val[q], v, select_min)})
      room == IF k > better THEN k - better ELSE 0
  IN Min(CountVal(in_val, S, v), room)

DenseRowSelected(r) ==
  LET I == RowSlots(r, call.len)
      O == RowSlots(r, call.k)
  IN /\ \A v \in KeyValues(call.T) \cup Range(out_val) :
          CountVal(out_val, O, v) = TopKCount(call.in_val, I, v, call.k, call.select_min)
     /\ \A p \in O :
          CountPair(out_val, out_idx, O, out_val[p], out_idx[p])
            <= CountPair(call.in_val, call.in_idx, I, out_val[p], out_idx[p])

\* C1: a dense call with len >= k and an algorithm of the enumeration returns
\* without error, every output row holds exactly the k smallest (largest)
\* values of its input row as a multiset, and the (value, index) pairs of the
\* row are pairs of the input row.
C1_DenseSelectsTopK ==
  (DenseDone /\ call.algo \in SelectAlgo) =>
     /\ err = NULL
     /\ Len(out_val) = call.batch_size * call.k
     /\ Len(out_idx) = call.batch_size * call.k
     /\ \A r \in 0..(call.batch_size - 1) : DenseRowSelected(r)

\* a sorted radix call over two rows of two columns, the first row holding two
\* different values, has completed with k = 1
C1_Witness ==
  /\ DenseDone
  /\ call.algo = kRadix11bits
  /\ call.sorted
  /\ call.batch_size = 2
  /\ call.len = 2
  /\ call.k = 1
  /\ call.in_val[1] # call.in_val[2]
  /\ err = NULL

\* the rows of the output are ordered in the direction of the selection
RowOrdered(vals, O, select_min) ==
  \A p, q \in O : p < q => ~Better(vals[q], vals[p], select_min)

\* C2: a dense call with sorted = true and an algorithm of the enumeration
\* returns every output row ordered, non-decreasing for select_min and
\* non-increasing otherwise.
C2_SortedRowsOrdered ==
  (DenseDone /\ call.sorted /\ call.algo \in SelectAlgo) =>
     \A r \in 0..(call.batch_size - 1) :
        RowOrdered(out_val, RowSlots(r, call.k), call.select_min)

(***************************************************************************)
(* select_k, sparse (CSR) entry point.                                     *)
(*                                                                         *)
(* in_val is [n_rows, n_cols, nnz, indptr, indices, elements]; an output   *)
(* view is [extent0, extent1, data]; in_idx is optional.  A column extent is [hi, lo] and      *)
(* stands for hi * 2^31 + lo, so that widths beyond the int range can be   *)
(* written down; a view of such a width has no materialised data.          *)
(***************************************************************************)
IntMax == 2147483647

FitsInt(e) == e.hi = 0 /\ e.lo <= IntMax

\* raft::matrix::segmented_copy: row i of dst receives the first
\* min(max_len_per_row, length of segment i) elements of segment i of src
SegmentCount(i, max_len_per_row, offsets) ==
  Min(max_len_per_row, offsets[i + 1] - offsets[i])

segmented_copy(max_len_per_row, src, offsets, dst, what) ==
  LET n_rows == Len(offsets) - 1
      moves == {<<i, j>> \in (1..n_rows) \X (1..max_len_per_row) :
                  j <= SegmentCount(i, max_len_per_row, offsets)}
  IN [data |-> [p \in 1..Len(dst) |->
                  LET i == ((p - 1) \div max_len_per_row) + 1
                      j == ((p - 1) % max_len_per_row) + 1
                  IN IF <<i, j>> \in moves THEN src[offsets[i] + j] ELSE dst[p]],
      op |-> [op |-> "segmented_copy", dst |-> what,
              reads |-> {<<m[1], offsets[m[1]] + m[2]>> : m \in moves},
              writes |-> {<<m[1], (m[1] - 1) * max_len_per_row + m[2]>> : m \in moves}]]

\* variant: the row count of out_idx is not checked
FailedExpectation_one_batch_check(c) ==
  LET nnz == c.in_val.nnz
      batch_size == c.in_val.n_rows
  IN CASE ~FitsInt(c.out_val.extent1) -> "output k must fit the int type."
       [] batch_size # c.out_val.extent0 -> "batch sizes must be equal"
       [] c.in_idx.has_value /\ nnz # Len(c.in_idx.value) ->
            "nnz of in_val must be equal to the length of in_idx"
       [] c.out_val.extent1 # c.out_idx.extent1 ->
            "value and index output lengths must be equal"
       [] OTHER -> NULL

\* the first precondition of the entry point that does not hold, NULL if all hold
FailedExpectation(c) ==
  LET nnz == c.in_val.nnz
      batch_size == c.in_val.n_rows
  IN CASE ~FitsInt(c.out_val.extent1) -> "output k must fit the int type."
       [] batch_size # c.out_val.extent0 -> "batch sizes must be equal"
       [] batch_size # c.out_idx.extent0 -> "batch sizes must be equal"
       [] c.in_idx.has_value /\ nnz # Len(c.in_idx.value) ->
            "nnz of in_val must be equal to the length of in_idx"
       [] c.out_val.extent1 # c.out_idx.extent1 ->
            "value and index output lengths must be equal"
       [] OTHER -> NULL

\* variant: the working values are always the column indices of the matrix
WorkingValues_indices(c) == SubSeq(c.in_val.indices, 1, c.in_val.nnz)

\* the three working buffers and the copies that fill them
WorkingOffsets(c) == SubSeq(c.in_val.indptr, 1, c.in_val.n_rows + 1)
WorkingKeys(c) == SubSeq(c.in_val.elements, 1, c.in_val.nnz)
WorkingValues(c) ==
  SubSeq(IF c.in_idx.has_value THEN c.in_idx.value ELSE c.in_val.indices, 1, c.in_val.nnz)

Unchanged(c, e) ==
  [out_val |-> c.out_val.data, out_idx |-> c.out_idx.data, ops |-> <<>>, err |-> e,
   algo |-> NULL, chooser_calls |-> 0]

\* variant: the test is for a negative count
EarlyReturn_negative(nnz) == nnz < 0

\* the test that ends the call before anything else is looked at
EarlyReturn(nnz) == nnz = 0

\* variant: the working buffers are declared before the checks
Raise_after_alloc(c, e) ==
  [Unchanged(c, e) EXCEPT
     !.ops = << [op |-> "alloc", buf |-> "offsets", size |-> c.in_val.n_rows + 1],
                [op |-> "alloc", buf |-> "keys", size |-> c.in_val.nnz],
                [op |-> "alloc", buf |-> "values", size |-> c.in_val.nnz] >>]

\* RAFT_EXPECTS throws: the working buffers are declared after the last check
Raise(c, e) == Unchanged(c, e)

\* variant: the width is taken from the input's column count
OutputWidth_len(c) == c.in_val.n_cols

\* k, the width of the output rows
OutputWidth(c) == c.out_val.extent1.lo

select_k_csr(c) ==
  LET nnz == c.in_val.nnz
      batch_size == c.in_val.n_rows
      k == OutputWidth(c)
      stream == c.handle.stream
  IN IF EarlyReturn(nnz) THEN Unchanged(c, NULL)
     ELSE IF FailedExpectation(c) # NULL THEN Raise(c, FailedExpectation(c))
     ELSE LET offsets == WorkingOffsets(c)
              srt == segmented_sort_by_key(c.handle, WorkingKeys(c), WorkingValues(c),
                                           batch_size, nnz, offsets, c.select_min,
                                           c.T, c.IdxT)
              cv == segmented_copy(k, srt.keys, offsets, c.out_val.data, "out_val")
              ci == segmented_copy(k, srt.values, offsets, c.out_idx.data, "out_idx")
          IN [out_val |-> cv.data,
              out_idx |-> ci.data,
              ops |-> << [op |-> "alloc", buf |-> "offsets", size |-> batch_size + 1],
                         [op |-> "alloc", buf |-> "keys", size |-> nnz],
                         [op |-> "alloc", buf |-> "values", size |-> nnz],
                         [op |-> "copy", dst |-> "offsets", src |-> "indptr",
                          size |-> batch_size + 1, stream |-> stream],
                         [op |-> "copy", dst |-> "keys", src |-> "elements",
                          size |-> nnz, stream |-> stream],
                         [op |-> "copy", dst |-> "values",
                          src |-> IF c.in_idx.has_value THEN "in_idx" ELSE "indices",
                          size |-> nnz, stream |-> stream] >>
                      \o srt.ops \o << cv.op, ci.op >>,
              err |-> NULL, algo |-> NULL, chooser_calls |-> 0]

(***************************************************************************)
(* The caller of the sparse entry point.                                   *)
(***************************************************************************)
\* std::optional
Some(v) == [has_value |-> TRUE, value |-> v]
Nullopt == [has_value |-> FALSE, value |-> <<>>]

RECURSIVE SumSeq(_)
SumSeq(s) == IF s = <<>> THEN 0 ELSE SumSeq(SubSeq(s, 1, Len(s) - 1)) + s[Len(s)]

NCols == MaxRowNnz + 1

\* a CSR matrix whose rows hold counts[i] nonzeros, in the last columns of the row
CsrMatrix(counts, elements) ==
  LET n == Len(counts)
      indptr == [i \in 1..(n + 1) |-> SumSeq(SubSeq(counts, 1, i - 1))]
      nnz == indptr[n + 1]
  IN [n_rows |-> n, n_cols |-> NCols, nnz |-> nnz, indptr |-> indptr,
      indices |-> [p \in 1..nnz |->
                     LET i == CHOOSE r \in 1..n : indptr[r] < p /\ p <= indptr[r + 1]
                     IN NCols - counts[i] + (p - indptr[i] - 1)],
      elements |-> elements]

OutView(rows, cols, prior) ==
  [extent0 |-> rows, extent1 |-> cols,
   data |-> IF cols.hi = 0 THEN SubSeq(prior, 1, rows * cols.lo) ELSE <<>>]

Widths == {[hi |-> 0, lo |-> k] : k \in 1..MaxK} \cup {[hi |-> 1, lo |-> 1]}

SparseSelectK ==
  /\ pc = "idle"
  /\ \E T \in TypeSizes, IdxT \in TypeSizes, n \in 1..MaxRows :
     \E counts \in [1..n -> 0..MaxRowNnz] :
       /\ SumSeq(counts) <= MaxNnz
       /\ \E elements \in [1..SumSeq(counts) -> KeyValues(T)],
             idx_given \in BOOLEAN, idx_extra \in 0..1,
             val_rows \in n..(n + 1), idx_rows \in n..(n + 1),
             val_cols \in Widths, idx_cols_extra \in 0..1,
             select_min \in BOOLEAN :
            /\ (~idx_given) => idx_extra = 0
            /\ LET csr == CsrMatrix(counts, elements)
                   idx_cols == IF idx_cols_extra = 0 THEN val_cols
                               ELSE [hi |-> 0, lo |-> val_cols.lo + 1]
                   c == [entry |-> "sparse", handle |-> Handle, T |-> T, IdxT |-> IdxT,
                         in_val |-> csr,
                         in_idx |-> IF idx_given THEN Some(InIdx(csr.nnz + idx_extra)) ELSE Nullopt,
                         out_val |-> OutView(val_rows, val_cols,
                                             PriorVal((MaxRows + 1) * (MaxK + 1))),
                         out_idx |-> OutView(idx_rows, idx_cols,
                                             PriorIdx((MaxRows + 1) * (MaxK + 1))),
                         select_min |-> select_min, mr |-> NULL]
               IN Finish(c, select_k_csr(c))

NextSparse == SparseSelectK \/ Return

SpecSparse == Init /\ [][NextSparse]_vars

SparseDone == pc = "done" /\ call.entry = "sparse"

\* the call passed the early return and every precondition
SparseRan == SparseDone /\ call.in_val.nnz > 0 /\ FailedExpectation(call) = NULL

\* the row of the CSR input: its segment of the nonzero arrays, the number of
\* its nonzeros, and the slots of the output row that the claim speaks of
Segment(i) == (call.in_val.indptr[i] + 1)..call.in_val.indptr[i + 1]
RowNnz(i) == call.in_val.indptr[i + 1] - call.in_val.indptr[i]
Filled(i) == Min(call.out_val.extent1.lo, RowNnz(i))
FilledSlots(i) ==
  ((i - 1) * call.out_val.extent1.lo + 1)..((i - 1) * call.out_val.extent1.lo + Filled(i))
RestSlots(i) ==
  ((i - 1) * call.out_val.extent1.lo + Filled(i) + 1)..(i * call.out_val.extent1.lo)

\* the indices the caller paired with the nonzeros
PairedIdx == IF call.in_idx.has_value THEN call.in_idx.value ELSE call.in_val.indices

SparseRowSelected(i) ==
  /\ \A v \in KeyValues(call.T) \cup Range(out_val) :
        CountVal(out_val, FilledSlots(i), v)
          = TopKCount(call.in_val.elements, Segment(i), v, Filled(i), call.select_min)
  /\ RowOrdered(out_val, FilledSlots(i), call.select_min)
  /\ \A p \in FilledSlots(i) :
        CountPair(out_val, out_idx, FilledSlots(i), out_val[p], out_idx[p])
          <= CountPair(call.in_val.elements, PairedIdx, Segment(i), out_val[p], out_idx[p])

\* C3: after a sparse call that ran, the first min(k, r_i) slots of every
\* output row hold the min(k, r_i) smallest (largest) values of the row in
\* ascending (descending) order, with the indices paired with them.
C3_SparseSelectsSortedPrefix ==
  SparseRan => \A i \in 1..call.in_val.n_rows : SparseRowSelected(i)

\* the positions in ops of the two segmented copies
CopyOps == {n \in DOMAIN ops : ops[n].op = "segmented_copy"}

\* the slots of an output buffer that the segmented copies wrote
Written(what) ==
  UNION {{w[2] : w \in ops[n].writes} : n \in {m \in CopyOps : ops[m].dst = what}}

\* C4: a sparse call that succeeds writes, in both output buffers, exactly the
\* first min(k, r_i) slots of every row i, leaves the other slots of the row
\* with the contents they had before the call, reads for row i only elements
\* of the row's segment, and writes for row i only slots of row i.
C4_UnderfilledRowsKeepContents ==
  (SparseDone /\ err = NULL) =>
     /\ Len(out_val) = Len(call.out_val.data)
     /\ Len(out_idx) = Len(call.out_idx.data)
     /\ call.in_val.nnz > 0 => {ops[n].dst : n \in CopyOps} = {"out_val", "out_idx"}
     /\ \A p \in DOMAIN out_val : p \notin Written("out_val") => out_val[p] = call.out_val.data[p]
     /\ \A p \in DOMAIN out_idx : p \notin Written("out_idx") => out_idx[p] = call.out_idx.data[p]
     /\ \A i \in 1..call.in_val.n_rows :
          /\ \A n \in CopyOps :
               /\ {w[2] : w \in {x \in ops[n].writes : x[1] = i}} = FilledSlots(i)
               /\ {w[2] : w \in {x \in ops[n].reads : x[1] = i}} \subseteq Segment(i)
          /\ \A p \in RestSlots(i) \cap DOMAIN out_val : out_val[p] = call.out_val.data[p]
          /\ \A p \in RestSlots(i) \cap DOMAIN out_idx : out_idx[p] = call.out_idx.data[p]
          /\ \A p \in FilledSlots(i) :
               /\ out_val[p] \in {call.in_val.elements[q] : q \in Segment(i)}
               /\ out_idx[p] \in {PairedIdx[q] : q \in Segment(i)}

\* a call with k = 2 over a row with one nonzero and a row with none succeeded
C4_Witness ==
  /\ SparseDone
  /\ err = NULL
  /\ call.in_val.nnz > 0
  /\ call.out_val.extent1 = [hi |-> 0, lo |-> 2]
  /\ \E i, j \in 1..call.in_val.n_rows : RowNnz(i) = 1 /\ RowNnz(j) = 0
  /\ CopyOps # {}

\* C5: a sparse call with no nonzeros returns without error, with both output
\* buffers unchanged and with nothing allocated or submitted.
C5_EmptyInputIsNoOp ==
  (SparseDone /\ call.in_val.nnz = 0) =>
     /\ err = NULL
     /\ out_val = call.out_val.data
     /\ out_idx = call.out_idx.data
     /\ ops = <<>>

\* a call with no nonzeros and well-shaped outputs has returned
C5_Witness ==
  /\ SparseDone
  /\ call.in_val.nnz = 0
  /\ call.in_val.n_rows = 2
  /\ call.out_val.extent0 = 2
  /\ call.out_idx.extent0 = 2
  /\ call.out_val.extent1 = call.out_idx.extent1
  /\ Len(call.out_val.data) > 0

\* the preconditions as the interface states them
PreconditionViolated ==
  \/ call.in_val.n_rows # call.out_val.extent0
  \/ call.in_val.n_rows # call.out_idx.extent0
  \/ call.in_idx.has_value /\ Len(call.in_idx.value) # call.in_val.nnz
  \/ call.out_val.extent1 # call.out_idx.extent1
  \/ call.out_val.extent1.hi > 0

ExpectationMessages ==
  {"output k must fit the int type.", "batch sizes must be equal",
   "nnz of in_val must be equal to the length of in_idx",
   "value and index output lengths must be equal"}

\* C6 as stated: every sparse call that violates a precondition ends with a
\* precondition error, whatever the nonzero count.
C6_ViolationAlwaysRaises ==
  (SparseDone /\ PreconditionViolated) => err \in ExpectationMessages

\* C6 amended: every sparse call over an input with at least one nonzero that
\* violates a precondition ends with a precondition error.
C6_ViolationRaisesWhenNonEmpty ==
  (SparseDone /\ PreconditionViolated /\ call.in_val.nnz > 0) => err \in ExpectationMessages

\* a call with nonzeros whose only violation is the row count of out_idx raised
C6_Witness ==
  /\ SparseDone
  /\ call.in_val.nnz > 0
  /\ call.in_val.n_rows = call.out_val.extent0
  /\ call.in_val.n_rows # call.out_idx.extent0
  /\ call.out_val.extent1 = call.out_idx.extent1
  /\ call.out_val.extent1.hi = 0
  /\ ~call.in_idx.has_value
  /\ err = "batch sizes must be equal"

\* C7: when a precondition check of the sparse entry point fails, nothing has
\* been allocated or submitted and both output buffers are unchanged.
C7_ChecksPrecedeDeviceWork ==
  (SparseDone /\ err # NULL) =>
     /\ ops = <<>>
     /\ out_val = call.out_val.data
     /\ out_idx = call.out_idx.data

\* the last of the checks, the one on the widths, failed on a call with nonzeros
C7_Witness ==
  /\ SparseDone
  /\ call.in_val.nnz > 0
  /\ err = "value and index output lengths must be equal"
  /\ Len(call.out_val.data) > 0

(***************************************************************************)
(* Two dense calls in a row: the second selects, with the same k,          *)
(* select_min, algorithm and sorted flag, from the k pairs per row that    *)
(* the first call wrote.  first_val and first_idx keep the first result.   *)
(***************************************************************************)
\* one algorithm of each backend, and Auto
ReselectAlgos == {kRadix8bits, kRadix11bitsExtraPass, kWarpImmediate, kAuto}

DenseReselect ==
  /\ pc = "idle"
  /\ \E T \in TypeSizes, IdxT \in TypeSizes, batch_size \in 1..MaxBatch, len \in 1..MaxLen :
       /\ batch_size * len <= MaxCells
       /\ \E k \in 1..len, in_val \in [1..(batch_size * len) -> KeyValues(T)],
             select_min \in BOOLEAN, sorted \in BOOLEAN, a \in ReselectAlgos :
            LET c1 == [entry |-> "dense", handle |-> Handle, T |-> T, IdxT |-> IdxT,
                       in_val |-> in_val, in_idx |-> InIdx(batch_size * len),
                       batch_size |-> batch_size, len |-> len, k |-> k,
                       out_val |-> PriorVal(batch_size * k),
                       out_idx |-> PriorIdx(batch_size * k),
                       select_min |-> select_min, mr |-> NULL, sorted |-> sorted, algo |-> a]
            IN \E r1 \in select_k(c1) :
                 LET c2 == [c1 EXCEPT !.in_val = r1.out_val, !.in_idx = r1.out_idx,
                                      !.len = k]
                 IN \E r2 \in select_k(c2) :
                      Finish([entry |-> "reselect", first |-> c1, second |-> c2,
                              first_val |-> r1.out_val, first_idx |-> r1.out_idx,
                              first_err |-> r1.err], r2)

NextReselect == DenseReselect \/ Return

SpecReselect == Init /\ [][NextReselect]_vars

(***************************************************************************)
(* Direct calls of segmented_sort_by_key.  The offsets partition the first *)
(* n_elements slots into n_segments contiguous ranges.  out_val and        *)
(* out_idx hold the caller's keys and values buffers after the call.       *)
(***************************************************************************)
Handles == {Handle, [stream |-> "stream_b"]}

CoveringOffsets(n_elements, n_segments) ==
  {o \in [1..(n_segments + 1) -> 0..n_elements] :
     /\ o[1] = 0
     /\ o[n_segments + 1] = n_elements
     /\ \A i \in 1..n_segments : o[i] <= o[i + 1]}

SortKeys(n, KeyT) == [1..n -> KeyValues(KeyT)]

FinishSort(c, r) ==
  Finish(c, [out_val |-> r.keys \o SubSeq(c.keys, Len(r.keys) + 1, Len(c.keys)),
             out_idx |-> r.values \o SubSeq(c.values, Len(r.values) + 1, Len(c.values)),
             ops |-> r.ops, err |-> r.err, algo |-> NULL, chooser_calls |-> 0])

\* view overload: the element count is keys.size(), the segment count is
\* offsets.size() - 1
SegmentedSortView ==
  /\ pc = "idle"
  /\ \E KeyT \in TypeSizes, ValT \in TypeSizes, nk \in 0..MaxSortLen, nv \in 0..MaxSortLen,
        n_segments \in 1..MaxSegments, asc \in BOOLEAN, handle \in Handles :
       \E keys \in SortKeys(nk, KeyT), offsets \in CoveringOffsets(nk, n_segments) :
         LET c == [entry |-> "sort_view", handle |-> handle, KeyT |-> KeyT, ValT |-> ValT,
                   keys |-> keys, values |-> InIdx(nv), offsets |-> offsets,
                   n_segments |-> n_segments, n_elements |-> nk, asc |-> asc]
         IN FinishSort(c, segmented_sort_by_key_view(handle, offsets, keys, c.values, asc,
                                                     KeyT, ValT))

\* pointer overload: the caller states the element and segment counts
SegmentedSortPtr ==
  /\ pc = "idle"
  /\ \E KeyT \in TypeSizes, ValT \in TypeSizes, nk \in 0..MaxSortLen, nv \in 0..MaxSortLen,
        n_segments \in 1..MaxSegments, asc \in BOOLEAN, handle \in Handles :
       \E keys \in SortKeys(nk, KeyT), offsets \in CoveringOffsets(Min(nk, nv), n_segments) :
         LET c == [entry |-> "sort_ptr", handle |-> handle, KeyT |-> KeyT, ValT |-> ValT,
                   keys |-> keys, values |-> InIdx(nv), offsets |-> offsets,
                   n_segments |-> n_segments, n_elements |-> Min(nk, nv), asc |-> asc]
         IN FinishSort(c, segmented_sort_by_key(handle, keys, c.values, n_segments,
                                                c.n_elements, offsets, asc, KeyT, ValT))

NextSort == SegmentedSortView \/ SegmentedSortPtr \/ Return

SpecSort == Init /\ [][NextSort]_vars

(***************************************************************************)
(* Two calls at a time.  Each call runs on the stream of its own handle;   *)
(* the operations of one call take effect in the order the call submitted  *)
(* them, and the operations of the two calls interleave freely.  All       *)
(* buffers live in one device memory, dev.mem, and all scratch comes from  *)
(* one allocator.  A buffer records its contents, the call that owns it (0 *)
(* when it is free), the call that wrote it last (0 when nobody did),      *)
(* whether it is scratch, and how often the allocator handed it out.       *)
(***************************************************************************)
Streams == <<"stream_a", "stream_b">>

Buffer(data, owner, writer, scratch, uses) ==
  [data |-> data, owner |-> owner, writer |-> writer, scratch |-> scratch, uses |-> uses]

\* the allocator: the first free block, a new one when none is free
Allocate(mem) ==
  LET free == {b \in DOMAIN mem : mem[b].owner = 0}
  IN IF free = {} THEN Len(mem) + 1 ELSE CHOOSE b \in free : \A x \in free : b <= x

\* a block handed out again keeps what was left in it
Resize(old, size) == [p \in 1..size |-> IF p <= Len(old) THEN old[p] ELSE Uninit]

Bind(bufs, name, id) ==
  [n \in (DOMAIN bufs) \cup {name} |-> IF n = name THEN id ELSE bufs[n]]

Put(mem, id, b) ==
  [x \in 1..(IF id > Len(mem) THEN id ELSE Len(mem)) |-> IF x = id THEN b ELSE mem[x]]

\* the first elements of dst replaced by those of src
Overwrite(dst, src, size) == [p \in 1..Len(dst) |-> IF p <= size THEN src[p] ELSE dst[p]]

\* the operations a call submits, in order
Program(c) ==
  IF c.entry = "dense" THEN (CHOOSE r \in select_k(c) : TRUE).ops ELSE select_k_csr(c).ops

\* the buffers the caller hands to a call, by name, with their contents
CallerBuffers(c) ==
  IF c.entry = "dense"
    THEN << <<"in_val", c.in_val>>, <<"in_idx", c.in_idx>>,
            <<"out_val", c.out_val>>, <<"out_idx", c.out_idx>> >>
    ELSE << <<"indptr", c.in_val.indptr>>, <<"elements", c.in_val.elements>>,
            <<"indices", c.in_val.indices>>,
            <<"in_idx", IF c.in_idx.has_value THEN c.in_idx.value ELSE <<>> >>,
            <<"out_val", c.out_val.data>>, <<"out_idx", c.out_idx.data>> >>

\* the names under which the segmented sort finds its keys and values: the
\* dense post-sort sorts the output buffers, the sparse sort its working copies
SortAliases(c, bufs) ==
  IF c.entry = "dense"
    THEN Bind(Bind(bufs, "keys", bufs["out_val"]), "values", bufs["out_idx"])
    ELSE bufs

\* a call i with arguments c placed on the device: its caller's buffers follow
\* the blocks already in mem
Place(i, c, mem) ==
  LET cb == CallerBuffers(c)
      base == Len(mem)
      bufs == [n \in {cb[j][1] : j \in DOMAIN cb} |->
                 base + (CHOOSE j \in DOMAIN cb : cb[j][1] = n)]
  IN [mem |-> mem \o [j \in DOMAIN cb |-> Buffer(cb[j][2], i, i, FALSE, 0)],
      run |-> [c |-> c, handle |-> c.handle, prog |-> Program(c), ip |-> 1,
               bufs |-> SortAliases(c, bufs)]]

\* what the next operation o of call i (running as r) can do to the memory:
\* the new memory, the new names, and the blocks read and written
Effects(i, r, o, mem) ==
  LET B == r.bufs
      D(name) == mem[B[name]].data
      W(m, name, data) == [m EXCEPT ![B[name]].data = data, ![B[name]].writer = i]
      Same == [mem |-> mem, bufs |-> B, reads |-> {}, writes |-> {}]
  IN CASE o.op = "alloc" ->
            LET id == Allocate(mem)
                old == IF id <= Len(mem) THEN mem[id] ELSE Buffer(<<>>, 0, 0, TRUE, 0)
                m1 == Put(mem, id, Buffer(Resize(old.data, o.size), i, old.writer, TRUE,
                                          old.uses + 1))
                m2 == IF o.buf \in DOMAIN B THEN [m1 EXCEPT ![B[o.buf]].owner = 0] ELSE m1
            IN {[mem |-> m2, bufs |-> Bind(B, o.buf, id), reads |-> {}, writes |-> {}]}
       [] o.op = "select" ->
            LET outs == IF o.backend = "radix"
                          THEN radix_select_k(D("in_val"), D("in_idx"), o.batch_size, o.len,
                                              o.k, o.select_min)
                          ELSE warpsort_select_k(D("in_val"), D("in_idx"), o.batch_size,
                                                 o.len, o.k, o.select_min)
            IN {[mem |-> W(W(mem, "out_val", Overwrite(D("out_val"), out.out_val,
                                                       Len(out.out_val))),
                           "out_idx", Overwrite(D("out_idx"), out.out_idx, Len(out.out_idx))),
                 bufs |-> B,
                 reads |-> {B["in_val"], B["in_idx"]},
                 writes |-> {B["out_val"], B["out_idx"]}] : out \in outs}
       [] o.op = "fill" ->
            {[mem |-> W(mem, o.buf, [p \in DOMAIN D(o.buf) |-> o.value]),
              bufs |-> B, reads |-> {}, writes |-> {B[o.buf]}]}
       [] o.op = "exclusive_scan" ->
            {[mem |-> W(mem, o.buf, [p \in DOMAIN D(o.buf) |->
                                       Cast(ExclusiveScan(D(o.buf), o.init)[p], r.c.IdxT)]),
              bufs |-> B, reads |-> {B[o.buf]}, writes |-> {B[o.buf]}]}
       [] o.op \in {"SortPairs", "SortPairsDescending"} ->
            IF o.d_temp_storage = NULL
              THEN {Same}
              ELSE LET sorted == SortPairs(D("keys"), D("values"), o.n_elements,
                                           o.n_segments, D("offsets"), o.op = "SortPairs",
                                           o.begin_bit, o.end_bit)
                       m1 == W(mem, "out_dists",
                               Overwrite(D("out_dists"),
                                         [p \in 1..o.n_elements |-> sorted[p][1]],
                                         o.n_elements))
                       m2 == W(m1, "out_inds",
                               Overwrite(D("out_inds"),
                                         [p \in 1..o.n_elements |-> sorted[p][2]],
                                         o.n_elements))
                       m3 == [m2 EXCEPT ![B["d_temp_storage"]].writer = i]
                   IN {[mem |-> m3, bufs |-> B,
                        reads |-> {B["keys"], B["values"], B["offsets"]},
                        writes |-> {B["out_dists"], B["out_inds"], B["d_temp_storage"]}]}
       [] o.op = "copy" ->
            {[mem |-> W(mem, o.dst, Overwrite(D(o.dst), D(o.src), o.size)),
              bufs |-> B, reads |-> {B[o.src]}, writes |-> {B[o.dst]}]}
       [] o.op = "segmented_copy" ->
            LET src == IF o.dst = "out_val" THEN "keys" ELSE "values"
            IN {[mem |-> W(mem, o.dst,
                           segmented_copy(OutputWidth(r.c), D(src), D("offsets"),
                                          D(o.dst), o.dst).data),
                 bufs |-> B, reads |-> {B[src], B["offsets"]}, writes |-> {B[o.dst]}]}
       [] OTHER -> {Same}

\* the operations that the host completes while it submits: allocations, the
\* call of the sort helper and the size query
HostOnly(o) ==
  \/ o.op \in {"alloc", "segmented_sort_by_key"}
  \/ o.op \in {"SortPairs", "SortPairsDescending"} /\ o.d_temp_storage = NULL

\* the next device operation of call i together with the host's operations
\* that precede it; pre is the memory the device operation finds
RECURSIVE Advance(_, _, _)
Advance(i, r, mem) ==
  IF r.ip > Len(r.prog)
    THEN {[run |-> r, pre |-> mem, mem |-> mem, reads |-> {}, writes |-> {}]}
    ELSE LET o == r.prog[r.ip]
             es == Effects(i, r, o, mem)
         IN IF HostOnly(o)
              THEN LET e == CHOOSE x \in es : TRUE
                   IN Advance(i, [r EXCEPT !.ip = r.ip + 1, !.bufs = e.bufs], e.mem)
              ELSE {[run |-> [r EXCEPT !.ip = r.ip + 1, !.bufs = e.bufs], pre |-> mem,
                     mem |-> e.mem, reads |-> e.reads, writes |-> e.writes] : e \in es}

\* variant: a call that is through gives back all scratch there is
Release_all(i, mem) ==
  [b \in DOMAIN mem |-> IF mem[b].scratch THEN [mem[b] EXCEPT !.owner = 0] ELSE mem[b]]

\* the scratch of call i goes back to the allocator when the call is through
Release(i, mem) ==
  [b \in DOMAIN mem |->
     IF mem[b].owner = i /\ mem[b].scratch THEN [mem[b] EXCEPT !.owner = 0] ELSE mem[b]]

\* the calls that can run side by side: dense calls on one row ...
ConcDense ==
  {[entry |-> "dense", handle |-> Handle, T |-> 1, IdxT |-> 1,
    in_val |-> in_val, in_idx |-> InIdx(MaxConcLen),
    batch_size |-> 1, len |-> MaxConcLen, k |-> k,
    out_val |-> PriorVal(k), out_idx |-> PriorIdx(k),
    select_min |-> select_min, mr |-> NULL, sorted |-> TRUE, algo |-> a] :
     in_val \in [1..MaxConcLen -> KeyValues(1)], k \in 1..MaxConcLen,
     select_min \in BOOLEAN, a \in {kRadix8bits, kWarpImmediate}}

\* ... and sparse calls on MaxConcLen nonzeros in one row or in rows of one
ConcSparse ==
  {[entry |-> "sparse", handle |-> Handle, T |-> 1, IdxT |-> 1,
    in_val |-> CsrMatrix(counts, elements), in_idx |-> Nullopt,
    out_val |-> OutView(Len(counts), [hi |-> 0, lo |-> 1], PriorVal(MaxConcLen)),
    out_idx |-> OutView(Len(counts), [hi |-> 0, lo |-> 1], PriorIdx(MaxConcLen)),
    select_min |-> select_min, mr |-> NULL] :
     counts \in {<<MaxConcLen>>, [j \in 1..MaxConcLen |-> 1]},
     elements \in [1..MaxConcLen -> KeyValues(1)], select_min \in BOOLEAN}

\* the calls the first one is run against
ConcPeers ==
  {c \in ConcDense \cup ConcSparse :
     /\ c.select_min
     /\ IF c.entry = "dense"
          THEN c.in_val = [p \in 1..MaxConcLen |-> 1 + (p % 2)] /\ c.k = 1
          ELSE c.in_val.elements = [p \in 1..MaxConcLen |-> 1 + (p % 2)]}

\* two callers, each with a handle of its own, call select_k
ConcurrentLaunch ==
  /\ pc = "idle"
  /\ \E ca \in ConcDense \cup ConcSparse, cb \in ConcPeers :
       LET a == Place(1, [ca EXCEPT !.handle = [stream |-> Streams[1]]], <<>>)
           b == Place(2, [cb EXCEPT !.handle = [stream |-> Streams[2]]], a.mem)
       IN /\ dev' = [calls |-> <<a.run, b.run>>, mem |-> b.mem,
                     foreign |-> FALSE, crossread |-> FALSE]
          /\ call' = [entry |-> "concurrent"]
  /\ pc' = "running"
  /\ UNCHANGED <<out_val, out_idx, ops, err, algo, chooser_calls, worksize, ret>>

\* the device takes the next operation of one of the two streams
ConcurrentStep ==
  /\ pc = "running"
  /\ \E i \in 1..2 :
       LET r == dev.calls[i]
       IN /\ r.ip <= Len(r.prog)
          /\ \E e \in Advance(i, r, dev.mem) :
               LET last == e.run.ip > Len(r.prog)
                   calls == [dev.calls EXCEPT ![i] = e.run]
               IN /\ dev' = [calls |-> calls,
                             mem |-> IF last THEN Release(i, e.mem) ELSE e.mem,
                             foreign |-> dev.foreign \/
                                         \E b \in e.reads \cup e.writes : e.pre[b].owner # i,
                             crossread |-> dev.crossread \/
                                           \E b \in e.reads : e.pre[b].writer \notin {0, i}]
                  /\ pc' = IF \A j \in 1..2 : calls[j].ip > Len(calls[j].prog)
                             THEN "done" ELSE "running"
  /\ UNCHANGED <<call, out_val, out_idx, ops, err, algo, chooser_calls, worksize, ret>>

NextConcurrent == ConcurrentLaunch \/ ConcurrentStep \/ Return

SpecConcurrent == Init /\ [][NextConcurrent]_vars

(***************************************************************************)
(* Pairwise distances (cpp/include/raft/distance/distance.cuh).  The names *)
(* below are the distance types that have a DistanceImpl specialization.   *)
(***************************************************************************)
L2Expanded == "L2Expanded"
L2SqrtExpanded == "L2SqrtExpanded"
CosineExpanded == "CosineExpanded"
L2Unexpanded == "L2Unexpanded"
L2SqrtUnexpanded == "L2SqrtUnexpanded"
L1 == "L1"
Linf == "Linf"
HellingerExpanded == "HellingerExpanded"
LpUnexpanded == "LpUnexpanded"
Canberra == "Canberra"
HammingUnexpanded == "HammingUnexpanded"
JensenShannon == "JensenShannon"
RusselRaoExpanded == "RusselRaoExpanded"
KLDivergence == "KLDivergence"
CorrelationExpanded == "CorrelationExpanded"

Specialized ==
  {L2Expanded, L2SqrtExpanded, CosineExpanded, L2Unexpanded, L2SqrtUnexpanded, L1, Linf,
   HellingerExpanded, LpUnexpanded, Canberra, HammingUnexpanded, JensenShannon,
   RusselRaoExpanded, KLDivergence, CorrelationExpanded}

\* the enumerators of DistanceType and their values (raft/linalg/distance_type.h)
DistanceTypeValue ==
  [L2Expanded |-> 0, L2SqrtExpanded |-> 1, CosineExpanded |-> 2, L1 |-> 3, L2Unexpanded |-> 4,
   L2SqrtUnexpanded |-> 5, InnerProduct |-> 6, Linf |-> 7, Canberra |-> 8, LpUnexpanded |-> 9,
   CorrelationExpanded |-> 10, JaccardExpanded |-> 11, HellingerExpanded |-> 12,
   Haversine |-> 13, BrayCurtis |-> 14, JensenShannon |-> 15, HammingUnexpanded |-> 16,
   KLDivergence |-> 17, RusselRaoExpanded |-> 18, DiceExpanded |-> 19, Precomputed |-> 100]

DistanceTypes == DOMAIN DistanceTypeValue

\* the arguments every distance kernel receives
KernelArgs(a) ==
  [m |-> a.m, n |-> a.n, k |-> a.k, x |-> a.x, y |-> a.y, dist |-> a.dist,
   fin_op |-> a.fin_op, stream |-> a.stream, isRowMajor |-> a.isRowMajor]

\* the workspace arguments of the kernels that take one
WorkspaceArgs(a) == [workspace |-> a.workspace, worksize |-> a.worksize]

\* DistanceImpl<distanceType>::run: the kernel launched, as a sequence of at
\* most one operation; the primary template launches nothing
DistanceImpl_run(distanceType, a) ==
  CASE distanceType = L2Expanded ->
         << [op |-> "euclideanAlgo1", sqrt |-> FALSE] @@ KernelArgs(a) @@ WorkspaceArgs(a) >>
    [] distanceType = L2SqrtExpanded ->
         << [op |-> "euclideanAlgo1", sqrt |-> TRUE] @@ KernelArgs(a) @@ WorkspaceArgs(a) >>
    [] distanceType = CosineExpanded ->
         << [op |-> "cosineAlgo1"] @@ KernelArgs(a) @@ WorkspaceArgs(a) >>
    [] distanceType = L2Unexpanded ->
         << [op |-> "euclideanAlgo2", sqrt |-> FALSE] @@ KernelArgs(a) >>
    [] distanceType = L2SqrtUnexpanded ->
         << [op |-> "euclideanAlgo2", sqrt |-> TRUE] @@ KernelArgs(a) >>
    [] distanceType = L1 ->
         << [op |-> "l1Impl"] @@ KernelArgs(a) >>
    [] distanceType = Linf ->
         << [op |-> "chebyshevImpl"] @@ KernelArgs(a) >>
    [] distanceType = HellingerExpanded ->
         << [op |-> "hellingerImpl"] @@ KernelArgs(a) >>
    [] distanceType = LpUnexpanded ->
         << [op |-> "minkowskiImpl", metric_arg |-> a.metric_arg] @@ KernelArgs(a) >>
    [] distanceType = Canberra ->
         << [op |-> "canberraImpl"] @@ KernelArgs(a) >>
    [] distanceType = HammingUnexpanded ->
         << [op |-> "hammingUnexpandedImpl"] @@ KernelArgs(a) >>
    [] distanceType = JensenShannon ->
         << [op |-> "jensenShannonImpl"] @@ KernelArgs(a) >>
    [] distanceType = RusselRaoExpanded ->
         << [op |-> "russellRaoImpl"] @@ KernelArgs(a) >>
    [] distanceType = KLDivergence ->
         << [op |-> "klDivergenceImpl"] @@ KernelArgs(a) >>
    [] distanceType = CorrelationExpanded ->
         << [op |-> "correlationImpl"] @@ KernelArgs(a) @@ WorkspaceArgs(a) >>
    [] OTHER -> <<>>

\* variant: the workspace is sized for every expanded metric
is_allocated_any_expanded(distanceType) ==
  \/ DistanceTypeValue[distanceType] <= DistanceTypeValue[CosineExpanded]
  \/ distanceType \in {CorrelationExpanded, HellingerExpanded, RusselRaoExpanded}

is_allocated(distanceType) ==
  \/ DistanceTypeValue[distanceType] <= DistanceTypeValue[CosineExpanded]
  \/ distanceType = CorrelationExpanded

numOfBuffers(distanceType) == IF distanceType = CorrelationExpanded THEN 2 ELSE 1

getWorkspaceSize(distanceType, x, y, m, n, k, sizeofAccType) ==
  IF is_allocated(distanceType)
    THEN numOfBuffers(distanceType) * m * sizeofAccType
         + (IF x # y THEN numOfBuffers(distanceType) * n * sizeofAccType ELSE 0)
    ELSE 0

\* distance with an epilogue: runs the implementation of the distance type
distance_fin_op(distanceType, a) == DistanceImpl_run(distanceType, a)

\* the simple overload: the same with the identity epilogue
distance(distanceType, a) ==
  distance_fin_op(distanceType, [a EXCEPT !.fin_op = "default_fin_op"])

AccTypeSizes == {4, 8}

Pointers == {"x", "y"}

MetricArgs == {2, 3}

\* the caller asks for the workspace size and keeps the answer in worksize
GetWorkspaceSize ==
  /\ pc = "idle"
  /\ \E distanceType \in DistanceTypes, y \in Pointers, m \in 0..MaxPoints, n \in 0..MaxPoints,
        k \in 1..MaxPoints, sizeofAccType \in AccTypeSizes :
       /\ call' = [entry |-> "getWorkspaceSize", distanceType |-> distanceType,
                   x |-> "x", y |-> y, m |-> m, n |-> n, k |-> k,
                   sizeofAccType |-> sizeofAccType]
       /\ worksize' = getWorkspaceSize(distanceType, "x", y, m, n, k, sizeofAccType)
  /\ pc' = "done"
  /\ UNCHANGED <<out_val, out_idx, ops, err, algo, chooser_calls, dev, ret>>

\* the caller's variable worksize is passed by value, with a workspace or
\* with nullptr, to the simple overload of distance
Distance ==
  /\ pc = "idle"
  /\ \E distanceType \in DistanceTypes, y \in Pointers, m \in 0..MaxPoints, n \in 0..MaxPoints,
        k \in 1..MaxPoints, sizeofAccType \in AccTypeSizes,
        workspace \in {NULL, "workspace"}, metric_arg \in MetricArgs :
       \E w \in {0, getWorkspaceSize(distanceType, "x", y, m, n, k, sizeofAccType)} :
         LET a == [m |-> m, n |-> n, k |-> k, x |-> "x", y |-> y, dist |-> "dist",
                   workspace |-> workspace, worksize |-> w, fin_op |-> NULL,
                   stream |-> Handle.stream, isRowMajor |-> TRUE, metric_arg |-> metric_arg]
         IN /\ call' = [entry |-> "distance", distanceType |-> distanceType,
                        sizeofAccType |-> sizeofAccType] @@ a
            /\ ops' = distance(distanceType, a)
            /\ worksize' = w
  /\ pc' = "done"
  /\ UNCHANGED <<out_val, out_idx, err, algo, chooser_calls, dev, ret>>

\* a metric value that is no enumerator of DistanceType, made with a cast
UnknownMetric == "UnknownMetric"

MetricValues == DistanceTypes \cup {UnknownMetric}

\* the default of the metric_arg parameter of pairwise_distance_impl
DefaultMetricArg == 2

\* pairwise_distance_impl<Type, Index_, DistType>: sizes the workspace, then
\* runs the simple overload of distance on it
pairwise_distance_impl(DistType, a, metric_arg) ==
  LET size == getWorkspaceSize(DistType, a.x, a.y, a.m, a.n, a.k, a.sizeofType)
  IN [ops |-> << [op |-> "resize", buf |-> "workspace", size |-> size,
                  stream |-> a.stream] >>
              \o distance(DistType,
                          [m |-> a.m, n |-> a.n, k |-> a.k, x |-> a.x, y |-> a.y,
                           dist |-> a.dist, workspace |-> "workspace", worksize |-> size,
                           fin_op |-> NULL, stream |-> a.stream,
                           isRowMajor |-> a.isRowMajor, metric_arg |-> metric_arg]),
      err |-> NULL]

\* variant: the default branch falls back to L2Expanded
pairwise_distance_default_l2(metric, a) ==
  CASE metric = LpUnexpanded -> pairwise_distance_impl(metric, a, a.metric_arg)
    [] metric \in {L2Expanded, L2SqrtExpanded, CosineExpanded, L1, L2Unexpanded,
                   L2SqrtUnexpanded, Linf, HellingerExpanded, Canberra,
                   HammingUnexpanded, JensenShannon, RusselRaoExpanded, KLDivergence,
                   CorrelationExpanded} ->
         pairwise_distance_impl(metric, a, DefaultMetricArg)
    [] OTHER -> pairwise_distance_impl(L2Expanded, a, DefaultMetricArg)

\* pairwise_distance: the switch over the runtime metric; only the
\* LpUnexpanded case hands the caller's metric_arg on, the default throws
pairwise_distance(metric, a) ==
  CASE metric = L2Expanded -> pairwise_distance_impl(L2Expanded, a, DefaultMetricArg)
    [] metric = L2SqrtExpanded -> pairwise_distance_impl(L2SqrtExpanded, a, DefaultMetricArg)
    [] metric = CosineExpanded -> pairwise_distance_impl(CosineExpanded, a, DefaultMetricArg)
    [] metric = L1 -> pairwise_distance_impl(L1, a, DefaultMetricArg)
    [] metric = L2Unexpanded -> pairwise_distance_impl(L2Unexpanded, a, DefaultMetricArg)
    [] metric = L2SqrtUnexpanded ->
         pairwise_distance_impl(L2SqrtUnexpanded, a, DefaultMetricArg)
    [] metric = Linf -> pairwise_distance_impl(Linf, a, DefaultMetricArg)
    [] metric = HellingerExpanded ->
         pairwise_distance_impl(HellingerExpanded, a, DefaultMetricArg)
    [] metric = LpUnexpanded -> pairwise_distance_impl(LpUnexpanded, a, a.metric_arg)
    [] metric = Canberra -> pairwise_distance_impl(Canberra, a, DefaultMetricArg)
    [] metric = HammingUnexpanded ->
         pairwise_distance_impl(HammingUnexpanded, a, DefaultMetricArg)
    [] metric = JensenShannon -> pairwise_distance_impl(JensenShannon, a, DefaultMetricArg)
    [] metric = RusselRaoExpanded ->
         pairwise_distance_impl(RusselRaoExpanded, a, DefaultMetricArg)
    [] metric = KLDivergence -> pairwise_distance_impl(KLDivergence, a, DefaultMetricArg)
    [] metric = CorrelationExpanded ->
         pairwise_distance_impl(CorrelationExpanded, a, DefaultMetricArg)
    [] OTHER ->
         [ops |-> <<>>, err |-> "Unknown or unsupported distance metric '%d'!"]

\* the caller hands a resizable workspace and a runtime metric
PairwiseDistance ==
  /\ pc = "idle"
  /\ \E metric \in MetricValues, y \in Pointers, m \in 0..MaxPoints, n \in 0..MaxPoints,
        k \in 1..MaxPoints, sizeofType \in AccTypeSizes, metric_arg \in MetricArgs,
        isRowMajor \in BOOLEAN :
       LET a == [m |-> m, n |-> n, k |-> k, x |-> "x", y |-> y, dist |-> "dist",
                 sizeofType |-> sizeofType, stream |-> Handle.stream,
                 isRowMajor |-> isRowMajor, metric_arg |-> metric_arg]
           r == pairwise_distance(metric, a)
       IN /\ call' = [entry |-> "pairwise_distance", metric |-> metric] @@ a
          /\ ops' = r.ops
          /\ err' = r.err
  /\ pc' = "done"
  /\ UNCHANGED <<out_val, out_idx, algo, chooser_calls, worksize, dev, ret>>

NextDistance == GetWorkspaceSize \/ Distance \/ PairwiseDistance \/ Return

SpecDistance == Init /\ [][NextDistance]_vars

(***************************************************************************)
(* The whole program: every entry point can be called.                     *)
(***************************************************************************)
(***************************************************************************)
(* raft::spectral::partition (cpp/include/raft/spectral/partition.hpp).    *)
(*                                                                         *)
(* The eigensolver and the cluster solver are template parameters: each    *)
(* returns any value of its result type or throws.  The call is followed   *)
(* stage by stage; ops is the log of what ran.                             *)
(***************************************************************************)
\* iteration counts the solvers report, and stand-ins for the residuals
IterCounts == 0..MaxIters
Residuals == {10, 11}

\* the three RAFT_EXPECTS at the head of partition, in order
partition_expects(c) ==
  CASE c.clusters = NULL -> "Null clusters buffer."
    [] c.eigVals = NULL -> "Null eigVals buffer."
    [] c.eigVecs = NULL -> "Null eigVecs buffer."
    [] OTHER -> NULL

\* variant: the whitening runs ahead of the eigensolver
PartitionStages_whiten_first ==
  << "laplacian_matrix_t", "transform_eigen_matrix", "solve_smallest_eigenvectors",
     "solve" >>

\* what partition runs after its checks, in program order
PartitionStages ==
  << "laplacian_matrix_t", "solve_smallest_eigenvectors", "transform_eigen_matrix",
     "solve" >>

\* the results a stage can come back with; NULL for the stages returning void
StageResults(stage) ==
  CASE stage = "solve_smallest_eigenvectors" -> IterCounts
    [] stage = "solve" -> {[first |-> r, second |-> i] : r \in Residuals, i \in IterCounts}
    [] OTHER -> {NULL}

\* the arguments a stage receives
StageArgs(stage, c) ==
  CASE stage = "laplacian_matrix_t" -> [csr_m |-> c.csr_m]
    [] stage = "solve_smallest_eigenvectors" ->
         [A |-> "L", eigVals |-> c.eigVals, eigVecs |-> c.eigVecs]
    [] stage = "transform_eigen_matrix" ->
         [n |-> c.csr_m.nrows_, nEigVecs |-> c.n_eigVecs, eigVecs |-> c.eigVecs]
    [] stage = "solve" ->
         [n |-> c.csr_m.nrows_, nEigVecs |-> c.n_eigVecs, eigVecs |-> c.eigVecs,
          clusters |-> c.clusters]

\* the result of the stage named s in the log
ResultOf(log, s) == log[CHOOSE n \in DOMAIN log : log[n].op = s].result

\* the tuple partition returns
partition_stats(log) ==
  << ResultOf(log, "solve_smallest_eigenvectors"), ResultOf(log, "solve").first,
     ResultOf(log, "solve").second >>

\* the call of partition: the null checks
Partition ==
  /\ pc = "idle"
  /\ \E clusters \in {NULL, "clusters"}, eigVals \in {NULL, "eigVals"},
        eigVecs \in {NULL, "eigVecs"}, nrows \in 1..MaxPoints, n_eigVecs \in 1..MaxPoints :
       LET c == [entry |-> "partition", csr_m |-> [nrows_ |-> nrows],
                 n_eigVecs |-> n_eigVecs, clusters |-> clusters, eigVals |-> eigVals,
                 eigVecs |-> eigVecs]
       IN /\ call' = c
          /\ err' = partition_expects(c)
          /\ pc' = IF partition_expects(c) = NULL THEN "running" ELSE "done"
  /\ UNCHANGED <<out_val, out_idx, ops, algo, chooser_calls, worksize, dev, ret>>

\* the next stage of a running partition: it comes back with a result, or it
\* throws and the call ends with its error
PartitionStage ==
  /\ pc = "running"
  /\ call.entry = "partition"
  /\ Len(ops) < Len(PartitionStages)
  /\ LET stage == PartitionStages[Len(ops) + 1]
     IN \/ /\ \E result \in StageResults(stage) :
                 ops' = Append(ops, [op |-> stage, result |-> result]
                                      @@ StageArgs(stage, call))
           /\ UNCHANGED <<pc, err>>
        \/ /\ stage \in {"solve_smallest_eigenvectors", "solve"}
           /\ pc' = "done"
           /\ err' = "exception in " \o stage
           /\ UNCHANGED ops
  /\ UNCHANGED <<call, out_val, out_idx, algo, chooser_calls, worksize, dev, ret>>

\* the return of partition
PartitionReturn ==
  /\ pc = "running"
  /\ call.entry = "partition"
  /\ Len(ops) = Len(PartitionStages)
  /\ pc' = "done"
  /\ ret' = partition_stats(ops)
  /\ UNCHANGED <<call, out_val, out_idx, ops, err, algo, chooser_calls, worksize, dev>>

NextPartition == Partition \/ PartitionStage \/ PartitionReturn \/ Return

SpecPartition == Init /\ [][NextPartition]_vars

(***************************************************************************)
(* ci/validate_wheel.sh.                                                   *)
(*                                                                         *)
(* The script runs under set -euo pipefail: a reference to an unset        *)
(* variable or positional parameter ends it with status 1, and a simple    *)
(* command that fails ends it with the status of that command.  ops is the *)
(* log of the commands run, ret the exit status of the script.  Strings    *)
(* that the script takes apart are sequences of characters.                *)
(***************************************************************************)
\* an environment variable: unset, or set to a value
Unset == [set |-> FALSE, value |-> <<>>]
SetTo(v) == [set |-> TRUE, value |-> v]

\* variant: the whole version string is taken for the major version
CudaMajor_whole(version) == version

\* ${RAPIDS_CUDA_VERSION%%.*}: the version without its longest suffix that
\* begins with a dot
CudaMajor(version) ==
  IF \E p \in DOMAIN version : version[p] = "."
    THEN SubSeq(version, 1, (CHOOSE p \in DOMAIN version :
                               /\ version[p] = "."
                               /\ \A q \in 1..(p - 1) : version[q] # ".") - 1)
    ELSE version

\* the arguments of pydistcheck for a package; NULL for an unsupported one
PydistcheckArgs(package_name, major) ==
  CASE package_name = "raft-dask" -> << "--max-allowed-size-compressed", "200M" >>
    [] package_name = "pylibraft" ->
         IF major = << "1", "1" >>
           THEN << "--max-allowed-size-compressed", "600M" >>
           ELSE << "--max-allowed-size-compressed", "100M" >>
    [] OTHER -> NULL

\* the commands after the package test, each with the status the environment
\* gives it
WheelCommands(c, args) ==
  << [op |-> "cd", args |-> << c.package_dir >>, status |-> c.status.cd],
     [op |-> "rapids-logger", args |-> << "validate packages with 'pydistcheck'" >>,
      status |-> c.status.logger[1]],
     [op |-> "pydistcheck", args |-> << "--inspect" >> \o args \o << c.wheels >>,
      status |-> c.status.pydistcheck],
     [op |-> "rapids-logger", args |-> << "validate packages with 'twine'" >>,
      status |-> c.status.logger[2]],
     [op |-> "twine", args |-> << "check", "--strict", c.wheels >>,
      status |-> c.status.twine] >>

\* set -e: the commands up to and including the first one that fails
RECURSIVE ErrExit(_)
ErrExit(cmds) ==
  IF cmds = <<>> THEN <<>>
  ELSE IF cmds[1].status # 0 THEN << cmds[1] >>
  ELSE << cmds[1] >> \o ErrExit(Tail(cmds))

\* the script: what it ran and the status it exited with
validate_wheel(c) ==
  IF c.argc < 3 \/ ~c.RAPIDS_CUDA_VERSION.set
    THEN [ops |-> <<>>, ret |-> 1, err |-> "unbound variable"]
    ELSE LET args == PydistcheckArgs(c.package_name, CudaMajor(c.RAPIDS_CUDA_VERSION.value))
         IN IF args = NULL
              THEN [ops |-> << [op |-> "echo",
                               args |-> << "Unsupported package name: ", c.package_name >>,
                               status |-> 0] >>,
                    ret |-> 1, err |-> NULL]
              ELSE LET ran == ErrExit(WheelCommands(c, args))
                   IN [ops |-> ran, ret |-> ran[Len(ran)].status, err |-> NULL]

PackageNames == {"raft-dask", "pylibraft", "libraft", "raft_dask"}

CudaVersions ==
  {Unset, SetTo(<< "1", "1", ".", "8" >>), SetTo(<< "1", "2", ".", "5" >>),
   SetTo(<< "1", "1" >>), SetTo(<< "1", ".", "1", "1" >>), SetTo(<<>>)}

\* the exit statuses of the commands the script calls
Statuses == 0..MaxStatus

\* a run of the script
ValidateWheel ==
  /\ pc = "idle"
  /\ \E argc \in 2..3, package_name \in PackageNames, version \in CudaVersions,
        s_cd \in Statuses, s_logger \in {0, MaxStatus} \X {0, MaxStatus},
        s_pydistcheck \in Statuses, s_twine \in Statuses :
       LET c == [entry |-> "validate_wheel", argc |-> argc, package_dir |-> "package_dir",
                 wheels |-> "wheel_dir/*.whl", package_name |-> package_name,
                 RAPIDS_CUDA_VERSION |-> version,
                 status |-> [cd |-> s_cd, logger |-> s_logger,
                             pydistcheck |-> s_pydistcheck, twine |-> s_twine]]
           r == validate_wheel(c)
       IN /\ call' = c
          /\ ops' = r.ops
          /\ ret' = r.ret
          /\ err' = r.err
  /\ pc' = "done"
  /\ UNCHANGED <<out_val, out_idx, algo, chooser_calls, worksize, dev>>

NextWheel == ValidateWheel \/ Return

SpecWheel == Init /\ [][NextWheel]_vars

Next ==
  \/ DenseSelectK
  \/ SparseSelectK
  \/ DenseDispatch
  \/ DensePostSort
  \/ DenseReselect
  \/ ChooseAlgorithm
  \/ SegmentedSortView
  \/ SegmentedSortPtr
  \/ GetWorkspaceSize
  \/ Distance
  \/ PairwiseDistance
  \/ Partition
  \/ PartitionStage
  \/ PartitionReturn
  \/ ValidateWheel
  \/ ConcurrentLaunch
  \/ ConcurrentStep
  \/ Return

Spec == Init /\ [][Next]_vars

\* the positions in ops of the backend calls
BackendCalls == {n \in DOMAIN ops : ops[n].op = "select"}

\* C8: a dense call with an algorithm value outside the enumeration fails with
\* the 'not supported' error, submits nothing and leaves the output buffers as
\* they were.
C8_UnknownAlgorithmFails ==
  (DenseDone /\ call.algo \notin SelectAlgo) =>
     /\ err = "K-selection Algorithm not supported."
     /\ ops = <<>>
     /\ out_val = call.out_val
     /\ out_idx = call.out_idx

\* a call with a value outside the enumeration has returned
C8_Witness ==
  /\ DenseDone
  /\ call.algo = kOutOfEnum
  /\ call.sorted
  /\ Len(call.out_val) = 2

DispatchDone == pc = "done" /\ call.entry = "dispatch"

\* C9: a dense call with algorithm Auto resolves it to an algorithm other than
\* Auto, reaches exactly one backend and does not fail, whatever batch_size,
\* len and k are.
C9_AutoReachesOneBackend ==
  (DispatchDone /\ call.algo = kAuto) =>
     /\ algo \in SelectAlgo \ {kAuto}
     /\ err = NULL
     /\ Cardinality(BackendCalls) = 1

\* an Auto call with k > 256 and few columns has been dispatched
C9_Witness ==
  /\ DispatchDone
  /\ call.algo = kAuto
  /\ call.k = 257
  /\ call.len = 16862
  /\ call.batch_size = 1021
  /\ Cardinality(BackendCalls) = 1

\* the decision tree as the interface describes it
DescribedChoice(rows, cols, k) ==
  IF k > 256
    THEN IF cols > 16862 /\ rows <= 1020 THEN kRadix11bits ELSE kRadix11bitsExtraPass
    ELSE IF k > 2
           THEN IF cols <= 22061 /\ rows <= 198 THEN kWarpImmediate ELSE kWarpDistributedShm
           ELSE kWarpImmediate

ChooserDone == pc = "done" /\ call.entry = "choose"

\* C10: the chooser's result is the described decision tree of (rows, cols, k);
\* k = 256 and k = 257 give a warp-sort and a radix algorithm, and with
\* k = 257 and rows <= 1020, cols = 16862 and cols = 16863 give
\* Radix11bitsExtraPass and Radix11bits.
C10_ChooserIsTheTree ==
  ChooserDone =>
     /\ algo = DescribedChoice(call.rows, call.cols, call.k)
     /\ call.k = 256 => algo \in WarpAlgos
     /\ call.k = 257 => algo \in RadixAlgos
     /\ (call.k = 257 /\ call.rows <= 1020 /\ call.cols = 16862) => algo = kRadix11bitsExtraPass
     /\ (call.k = 257 /\ call.rows <= 1020 /\ call.cols = 16863) => algo = kRadix11bits

\* the chooser was called on the column threshold with k just above 256
C10_Witness ==
  /\ ChooserDone
  /\ call.k = 257
  /\ call.cols = 16862
  /\ call.rows = 1020
  /\ algo = kRadix11bitsExtraPass

\* the algorithm of the enumeration whose backend call the record o is
BackendOf(o) ==
  IF o.backend = "radix"
    THEN (IF o.BitsPerPass = 8 THEN kRadix8bits
          ELSE IF o.fused_last_filter THEN kRadix11bits ELSE kRadix11bitsExtraPass)
    ELSE (CASE o.impl = "warp_sort_distributed" -> kWarpDistributed
            [] o.impl = "warp_sort_distributed_ext" -> kWarpDistributedShm
            [] o.impl = "select_k" -> kWarpAuto
            [] o.impl = "warp_sort_immediate" -> kWarpImmediate
            [] o.impl = "warp_sort_filtered" -> kWarpFiltered)

\* C11: a dense call consults the chooser once when the algorithm is Auto and
\* the backend that runs is the one of the chooser's result, so the chooser
\* ran before the dispatch; with an explicit algorithm the chooser is not
\* consulted and the backend that runs is the one the caller named, whatever
\* batch_size, len and k are.
C11_ChooserOnlyForAuto ==
  DispatchDone =>
     /\ call.algo = kAuto =>
          /\ chooser_calls = 1
          /\ algo = DescribedChoice(call.batch_size, call.len, call.k)
          /\ \A n \in BackendCalls : ops[n].backend = Dispatch(algo).backend
          /\ BackendCalls = {1}
          /\ BackendOf(ops[1]) = algo
     /\ (call.algo # kAuto) =>
          /\ chooser_calls = 0
          /\ algo = call.algo
     /\ (call.algo \in SelectAlgo \ {kAuto}) =>
          /\ Cardinality(BackendCalls) = 1
          /\ BackendCalls = {1}
          /\ BackendOf(ops[1]) = call.algo

\* an explicit radix call was dispatched with sizes for which the chooser
\* would have picked a warp sort
C11_Witness ==
  /\ DispatchDone
  /\ call.algo = kRadix8bits
  /\ call.k = 3
  /\ call.batch_size = 199
  /\ chooser_calls = 0
  /\ BackendCalls = {1}

(***************************************************************************)
(* Properties of segmented_sort_by_key.                                    *)
(***************************************************************************)
SortDone == pc = "done" /\ call.entry \in {"sort_view", "sort_ptr"}

SortRan == SortDone /\ err = NULL

\* the slots of segment i
SortSegment(i) == (call.offsets[i] + 1)..call.offsets[i + 1]

\* segment i of the keys buffer is ordered by the whole key
SegmentOrdered(i) ==
  \A p, q \in SortSegment(i) :
     p < q => IF call.asc THEN out_val[p] <= out_val[q] ELSE out_val[p] >= out_val[q]

\* C12: after segmented_sort_by_key every segment is ordered by the whole key
\* in the requested direction, whatever the key and index types are, and the
\* bit range handed to the sort covers the key.
C12_SegmentsOrderedByWholeKey ==
  SortRan =>
     /\ \A i \in 1..call.n_segments : SegmentOrdered(i)
     /\ \A n \in DOMAIN ops :
          ops[n].op \in {"SortPairs", "SortPairsDescending"} =>
             ops[n].begin_bit = 0 /\ ops[n].end_bit >= SizeofBits(call.KeyT)

\* C13: after segmented_sort_by_key the caller's buffers hold, inside every
\* segment, the same (key, value) pairs as before, each as often as before;
\* the slots past the sorted elements are as they were.
C13_SortKeepsPairsAndSegments ==
  SortRan =>
     /\ Len(out_val) = Len(call.keys)
     /\ Len(out_idx) = Len(call.values)
     /\ \A i \in 1..call.n_segments :
          \A p \in SortSegment(i) :
             /\ CountPair(out_val, out_idx, SortSegment(i), out_val[p], out_idx[p])
                  = CountPair(call.keys, call.values, SortSegment(i), out_val[p], out_idx[p])
             /\ CountPair(out_val, out_idx, SortSegment(i), call.keys[p], call.values[p])
                  = CountPair(call.keys, call.values, SortSegment(i), call.keys[p], call.values[p])
     /\ \A p \in (call.n_elements + 1)..Len(call.keys) : out_val[p] = call.keys[p]
     /\ \A p \in (call.n_elements + 1)..Len(call.values) : out_idx[p] = call.values[p]

\* two segments were sorted and one of them was rearranged
C13_Witness ==
  /\ SortRan
  /\ call.n_segments = 2
  /\ call.n_elements = 3
  /\ call.offsets = <<0, 2, 3>>
  /\ out_val # call.keys
  /\ out_idx # call.values

SizeMismatch == "Keys and values must contain the same number of elements."

\* the call failed on the size check before anything was submitted
FailedBeforeSubmission ==
  /\ err = SizeMismatch
  /\ ops = <<>>
  /\ out_val = call.keys
  /\ out_idx = call.values

\* C14 as stated: every call of the segmented sort with keys and values of
\* different lengths, through either overload, fails with the size error before
\* any allocation or device operation and leaves keys and values unchanged.
C14_MismatchAlwaysFails ==
  (SortDone /\ Len(call.keys) # Len(call.values)) => FailedBeforeSubmission

\* C14 amended: the view overload fails on keys and values of different lengths
\* before any allocation or device operation and leaves both unchanged; the
\* pointer overload makes no size check and sorts the elements it is told of.
C14_MismatchFailsInViewOverload ==
  /\ (SortDone /\ call.entry = "sort_view") =>
        IF Len(call.keys) # Len(call.values) THEN FailedBeforeSubmission ELSE err = NULL
  /\ (SortDone /\ call.entry = "sort_ptr") => (err = NULL /\ ops # <<>>)

\* the view overload was called with two keys and three values
C14_Witness ==
  /\ SortDone
  /\ call.entry = "sort_view"
  /\ Len(call.keys) = 2
  /\ Len(call.values) = 3
  /\ err = SizeMismatch

\* the sort calls among the submitted operations
IsSortCall(o) == o.op \in {"SortPairs", "SortPairsDescending"}

PostSortCalls == {n \in DOMAIN ops : ops[n].op = "segmented_sort_by_key"}

\* C20: a dense call that does not fail calls the segmented sort once, after
\* its backend call and in the direction of select_min, when sorted is set and
\* the algorithm that ran is one of the radix algorithms; otherwise it does not
\* call the segmented sort at all.
C20_PostSortOnlyAfterRadix ==
  (DispatchDone /\ err = NULL) =>
     IF call.sorted /\ algo \in RadixAlgos
       THEN /\ Cardinality(PostSortCalls) = 1
            /\ \A n \in PostSortCalls :
                 /\ \A b \in BackendCalls : b < n
                 /\ ops[n].asc = call.select_min
                 /\ n = Len(ops)
            /\ \A b \in BackendCalls : ops[b].backend = "radix"
       ELSE PostSortCalls = {}

\* an Auto call that the chooser resolved to a radix algorithm was post-sorted
C20_Witness ==
  /\ DispatchDone
  /\ err = NULL
  /\ call.algo = kAuto
  /\ call.sorted
  /\ algo \in RadixAlgos
  /\ PostSortCalls # {}

ReselectDone == pc = "done" /\ call.entry = "reselect"

\* the (value, index) pairs in row r of a k-wide output
RowPairs(vals, idxs, r, k) == {<<vals[p], idxs[p]>> : p \in RowSlots(r, k)}

\* C16: selecting k pairs per row from the k pairs per row that a dense call
\* selected, with the same k and select_min, returns in every row the same set
\* of pairs as the first call.
C16_ReselectionIsIdempotent ==
  ReselectDone =>
     /\ call.first_err = NULL
     /\ err = NULL
     /\ \A r \in 0..(call.first.batch_size - 1) :
          RowPairs(out_val, out_idx, r, call.first.k)
            = RowPairs(call.first_val, call.first_idx, r, call.first.k)

\* the first call selected two of the three elements of a row and the second
\* call wrote the two pairs in the other order
C16_Witness ==
  /\ ReselectDone
  /\ call.first.len = 3
  /\ call.first.k = 2
  /\ err = NULL
  /\ out_val # call.first_val
  /\ call.first_val[1] # call.first_val[2]

(***************************************************************************)
(* Properties of the distance entry points.                                *)
(***************************************************************************)
DistanceDone == pc = "done" /\ call.entry = "distance"

WorkspaceSizeDone == pc = "done" /\ call.entry = "getWorkspaceSize"

\* the distance types whose specialization hands the workspace to its kernel
PassesWorkspace ==
  {d \in DistanceTypes :
     \E o \in Range(DistanceImpl_run(d, [m |-> 1, n |-> 1, k |-> 1, x |-> "x", y |-> "y",
                                        dist |-> "dist", workspace |-> "workspace",
                                        worksize |-> 0, fin_op |-> NULL, stream |-> "stream",
                                        isRowMajor |-> TRUE, metric_arg |-> 2])) :
        "workspace" \in DOMAIN o}

\* C18: after the simple distance overload was called with no workspace, the
\* caller's worksize holds the number of workspace bytes that the distance type
\* and the sizes need.
C18_NullWorkspaceReportsSize ==
  (DistanceDone /\ call.workspace = NULL) =>
     worksize = getWorkspaceSize(call.distanceType, call.x, call.y, call.m, call.n, call.k,
                                 call.sizeofAccType)

ConcurrentDone == pc = "done" /\ call.entry = "concurrent"

\* what call c can leave in its output buffers when it runs alone
SoloOutputs(c) ==
  IF c.entry = "dense"
    THEN {<<r.out_val, r.out_idx>> : r \in select_k(c)}
    ELSE {<<select_k_csr(c).out_val, select_k_csr(c).out_idx>>}

\* what call i left in its output buffers
Outputs(i) ==
  << dev.mem[dev.calls[i].bufs["out_val"]].data,
     dev.mem[dev.calls[i].bufs["out_idx"]].data >>

\* C17: of two select_k calls running on streams of their own with one
\* allocator and separate output buffers, every operation goes to the stream of
\* its own call, no operation touches a buffer that the other call owns, no
\* operation reads what the other call wrote, and when both are through each
\* call's output buffers hold what the call can produce alone, whatever the
\* order in which the device took their operations.
C17_ConcurrentCallsDoNotInterfere ==
  /\ (pc \in {"running", "done"} /\ call.entry = "concurrent") =>
        /\ ~dev.foreign
        /\ ~dev.crossread
        /\ \A i \in 1..2 : \A n \in DOMAIN dev.calls[i].prog :
             "stream" \in DOMAIN dev.calls[i].prog[n] =>
                dev.calls[i].prog[n].stream = Streams[i]
  /\ ConcurrentDone => \A i \in 1..2 : Outputs(i) \in SoloOutputs(dev.calls[i].c)

\* a sorted radix call and a sparse call ran to the end, and the sparse call
\* got scratch that the dense call had used and written before
C17_Witness ==
  /\ ConcurrentDone
  /\ dev.calls[1].c.entry = "dense"
  /\ dev.calls[1].c.algo = kRadix8bits
  /\ dev.calls[2].c.entry = "sparse"
  /\ \E b \in DOMAIN dev.mem : dev.mem[b].uses > 1 /\ dev.mem[b].writer = 2

PostSortDone == pc = "done" /\ call.entry = "post_sort"

\* the arguments of the segmented sort call of a post-sorted dense call
SortArgs == ops[CHOOSE n \in DOMAIN ops : ops[n].op = "segmented_sort_by_key"]

\* C21: the synthetic offsets of the dense post-sort have batch_size + 1
\* entries, entry i is i * k for every i in 0..batch_size, they never decrease,
\* and the last entry is the length batch_size * k of the key and index views
\* handed to the segmented sort, for every batch_size and k the index type can
\* represent.
C21_SyntheticOffsetsValid ==
  (PostSortDone /\ err = NULL
     /\ call.batch_size <= IdxMax(call.IdxT)
     /\ call.k <= IdxMax(call.IdxT)) =>
    LET offsets == SortArgs.offsets
    IN /\ Len(offsets) = call.batch_size + 1
       /\ \A i \in 0..call.batch_size : offsets[i + 1] = i * call.k
       /\ \A i \in 1..(Len(offsets) - 1) : offsets[i] <= offsets[i + 1]
       /\ offsets[Len(offsets)] = call.batch_size * call.k
       /\ SortArgs.keys_extent = call.batch_size * call.k
       /\ SortArgs.vals_extent = call.batch_size * call.k

\* the radix backend was called with the given template and filter arguments
RadixCalledWith(b, bits, fused) ==
  /\ b.op = "select"
  /\ b.backend = "radix"
  /\ b.BitsPerPass = bits
  /\ b.fused_last_filter = fused

\* C22: a dense call that reaches the radix case calls the radix backend with
\* bit width 8 and the fused last filter for Radix8bits, with bit width 11 and
\* the fused last filter for Radix11bits, and with bit width 11 and no fused
\* last filter for Radix11bitsExtraPass; the call receives the caller's
\* batch_size, len, k, select_min and buffers, the stream of the handle and
\* the resolved memory resource, unchanged.
C22_RadixDispatchParameters ==
  (DenseDone /\ algo \in RadixAlgos) =>
    /\ ops # <<>>
    /\ algo = kRadix8bits => RadixCalledWith(ops[1], 8, TRUE)
    /\ algo = kRadix11bits => RadixCalledWith(ops[1], 11, TRUE)
    /\ algo = kRadix11bitsExtraPass => RadixCalledWith(ops[1], 11, FALSE)
    /\ ops[1].batch_size = call.batch_size
    /\ ops[1].len = call.len
    /\ ops[1].k = call.k
    /\ ops[1].select_min = call.select_min
    /\ ops[1].in_val = call.in_val
    /\ ops[1].in_idx = call.in_idx
    /\ ops[1].out_val = call.out_val
    /\ ops[1].out_idx = call.out_idx
    /\ ops[1].stream = call.handle.stream
    /\ ops[1].mr = (IF call.mr = NULL THEN "current_device_resource" ELSE call.mr)
    /\ BackendCalls = {1}

\* an extra-pass radix call ran without the fused last filter on the
\* caller's memory resource
C22_Witness ==
  /\ DenseDone
  /\ algo = kRadix11bitsExtraPass
  /\ call.mr # NULL
  /\ call.batch_size > 1
  /\ ops[1].fused_last_filter = FALSE
  /\ ops[1].mr = call.mr

\* the buffers a sparse call receives from its caller
SparseInputs == {"indptr", "elements", "indices", "in_idx"}

\* every filled slot of row i holds a nonzero of the row together with the
\* entry of source at the position of that nonzero, no nonzero taken twice
IndexAtNonzero(i, source) ==
  \A p \in FilledSlots(i) :
     /\ CountPair(call.in_val.elements, source, Segment(i), out_val[p], out_idx[p]) > 0
     /\ CountPair(out_val, out_idx, FilledSlots(i), out_val[p], out_idx[p])
          <= CountPair(call.in_val.elements, source, Segment(i), out_val[p], out_idx[p])

PairwiseDone == pc = "done" /\ call.entry = "pairwise_distance"

\* the fifteen metrics that have a case in the switch of pairwise_distance
HandledMetrics ==
  {"L2Expanded", "L2SqrtExpanded", "CosineExpanded", "L1", "L2Unexpanded",
   "L2SqrtUnexpanded", "Linf", "HellingerExpanded", "LpUnexpanded", "Canberra",
   "HammingUnexpanded", "JensenShannon", "RusselRaoExpanded", "KLDivergence",
   "CorrelationExpanded"}

\* the positions in ops of workspace resizes and of kernel launches
Resizes == {n \in DOMAIN ops : ops[n].op = "resize"}
Launches == {n \in DOMAIN ops : ops[n].op # "resize"}

\* C24: pairwise_distance with a metric that is none of the fifteen handled
\* ones throws the 'unknown or unsupported distance metric' error, resizes
\* nothing and launches nothing; with a handled metric it resizes the
\* workspace once, to getWorkspaceSize of that metric, before it launches the
\* one distance kernel, and the caller's metric_arg reaches the kernel only
\* for LpUnexpanded.
C24_PairwiseDispatch ==
  PairwiseDone =>
    IF call.metric \notin HandledMetrics
      THEN /\ err = "Unknown or unsupported distance metric '%d'!"
           /\ ops = <<>>
      ELSE /\ err = NULL
           /\ Cardinality(Resizes) = 1
           /\ Cardinality(Launches) = 1
           /\ \A r \in Resizes : \A l \in Launches :
                /\ r < l
                /\ ops[r].size = getWorkspaceSize(call.metric, call.x, call.y, call.m,
                                                  call.n, call.k, call.sizeofType)
                /\ "worksize" \in DOMAIN ops[l] => ops[l].worksize = ops[r].size
                /\ ("metric_arg" \in DOMAIN ops[l]) <=> (call.metric = LpUnexpanded)
                /\ call.metric = LpUnexpanded => ops[l].metric_arg = call.metric_arg

\* an LpUnexpanded call with a metric_arg other than the default launched the
\* Minkowski kernel with it after a resize of the workspace to zero bytes
C24_Witness ==
  /\ PairwiseDone
  /\ call.metric = LpUnexpanded
  /\ call.metric_arg # DefaultMetricArg
  /\ Len(ops) = 2
  /\ ops[1].op = "resize"
  /\ ops[1].size = 0
  /\ ops[2].op = "minkowskiImpl"
  /\ ops[2].metric_arg = call.metric_arg

InPartition == pc \in {"running", "done"} /\ call.entry = "partition"

\* the stages of the spectral partitioner that the log holds, in log order
StagesRun ==
  SelectSeq([n \in DOMAIN ops |-> ops[n].op],
            LAMBDA s : s \in {"solve_smallest_eigenvectors", "transform_eigen_matrix",
                              "solve"})

\* C25: partition runs the eigensolver, then the whitening of the
\* eigenvectors, then the cluster solver, in this order only and only when
\* clusters, eigVals and eigVecs are all non-null; with a null pointer among
\* them it raises the error of the null check and runs nothing; when it
\* returns, the tuple is (iteration count of the eigensolver, residual of the
\* cluster solver, iteration count of the cluster solver).
C25_PartitionStagesInOrder ==
  InPartition =>
    /\ \E n \in 0..3 :
         StagesRun = SubSeq(<< "solve_smallest_eigenvectors", "transform_eigen_matrix",
                               "solve" >>, 1, n)
    /\ (call.clusters = NULL \/ call.eigVals = NULL \/ call.eigVecs = NULL) =>
         /\ pc = "done"
         /\ ops = <<>>
         /\ ret = NULL
         /\ err \in {"Null clusters buffer.", "Null eigVals buffer.", "Null eigVecs buffer."}
         /\ call.clusters = NULL => err = "Null clusters buffer."
    /\ (pc = "done" /\ err = NULL) =>
         /\ Len(StagesRun) = 3
         /\ \E e, s \in DOMAIN ops :
              /\ ops[e].op = "solve_smallest_eigenvectors"
              /\ ops[s].op = "solve"
              /\ ret = << ops[e].result, ops[s].result.first, ops[s].result.second >>
              /\ ops[s].result.first \in Residuals
              /\ ops[s].result.second \in IterCounts
    /\ ret # NULL => (pc = "done" /\ err = NULL)

\* a partition returned after its three stages, with a cluster solver that
\* took more iterations than the eigensolver
C25_Witness ==
  /\ InPartition
  /\ pc = "done"
  /\ err = NULL
  /\ Len(ops) = 4
  /\ ret[1] < ret[3]
  /\ ret[2] \in Residuals

WheelDone == pc = "done" /\ call.entry = "validate_wheel"

Supported == call.package_name \in {"raft-dask", "pylibraft"}

\* the positions in ops of the runs of a command
RunsOf(cmd) == {n \in DOMAIN ops : ops[n].op = cmd}

\* the part of the version before its first dot is 11
MajorIsEleven ==
  LET v == call.RAPIDS_CUDA_VERSION.value
  IN /\ Len(v) >= 2
     /\ v[1] = "1"
     /\ v[2] = "1"
     /\ Len(v) = 2 \/ v[3] = "."

\* the size limit the package is to be checked with
SizeLimit ==
  IF call.package_name = "raft-dask" THEN "200M"
  ELSE IF MajorIsEleven THEN "600M"
  ELSE "100M"

\* the script printed the message of the unsupported package and did nothing else
OnlyReportedUnsupported ==
  /\ Len(ops) = 1
  /\ ops[1].op = "echo"
  /\ ops[1].args[1] = "Unsupported package name: "
  /\ ops[1].args[2] = call.package_name
  /\ ret = 1

\* what holds of the validators for a supported package: pydistcheck is the
\* first of them, it gets the size limit of the package, and twine check runs
\* once, after a pydistcheck that succeeded
ValidatorsInOrder ==
  /\ \A p \in RunsOf("pydistcheck") :
       /\ ops[p].args = << "--inspect", "--max-allowed-size-compressed", SizeLimit,
                           call.wheels >>
       /\ \A t \in RunsOf("twine") : p < t
       /\ \E d \in RunsOf("cd") : d < p /\ ops[d].status = 0
  /\ \A t \in RunsOf("twine") :
       /\ \E p \in RunsOf("pydistcheck") : ops[p].status = 0
       /\ ops[t].args = << "check", "--strict", call.wheels >>
  /\ Cardinality(RunsOf("pydistcheck")) <= 1
  /\ Cardinality(RunsOf("twine")) <= 1
  /\ (ret = 0) <=> (\E t \in RunsOf("twine") : ops[t].status = 0)

\* C26: the script run with a package name other than raft-dask and
\* pylibraft prints 'Unsupported package name' and exits with status 1 without
\* changing directory or running pydistcheck or twine; run with a supported
\* name, pydistcheck is the first validator and gets the size limit of the
\* package (200M for raft-dask, for pylibraft 600M with CUDA major version 11
\* and 100M otherwise), and twine check runs only after pydistcheck succeeded.
C26_OnlySupportedPackagesValidated ==
  (WheelDone /\ call.argc = 3) =>
    IF Supported THEN ValidatorsInOrder ELSE OnlyReportedUnsupported

\* C26, amended: the same when RAPIDS_CUDA_VERSION is set; when it is unset
\* the script fails at the expansion of the variable, before it
\* looks at the package name: it prints no message about the package and runs
\* nothing, whatever the package name.
C26_OnlySupportedPackagesValidatedWhenVersionSet ==
  (WheelDone /\ call.argc = 3) =>
    IF ~call.RAPIDS_CUDA_VERSION.set THEN ops = <<>> /\ ret # 0
    ELSE IF Supported THEN ValidatorsInOrder
    ELSE OnlyReportedUnsupported

\* pylibraft with CUDA 11.8: pydistcheck ran with the 600M limit and
\* succeeded, and twine check ran after it
C26_Witness ==
  /\ WheelDone
  /\ call.package_name = "pylibraft"
  /\ call.RAPIDS_CUDA_VERSION = SetTo(<< "1", "1", ".", "8" >>)
  /\ Len(ops) = 5
  /\ ops[3].op = "pydistcheck"
  /\ ops[3].args[3] = "600M"
  /\ ops[3].status = 0
  /\ ops[5].op = "twine"

====
